---- MODULE Spec2Model ----
(***************************************************************************)
(* A model of aioweb3: the Signer / nonce controller (signer.py,           *)
(* transaction.py, the receipt polling of aioweb3.py) and the two-way      *)
(* transport multiplexer (transport.py).  Every await of the source is a   *)
(* point where another task may run, so every action below is the code     *)
(* between two awaits of one coroutine.                                    *)
(***************************************************************************)
EXTENDS Integers, Sequences, FiniteSets, TLC

(* ----------------------------- bounds ---------------------------------- *)
\* number of Signer calls (send_transaction / wait_for_transaction) in a run
MaxCalls == 4
\* largest transaction count the node reports
MaxCount == 2
\* number of Transaction objects
NumTxs == 3

\* number of send_request calls on the transport in a run
MaxRequests == 3
\* number of listener tasks the transport creates in a run
MaxTasks == 3
\* number of connections opened to the server in a run
MaxConns == 2

\* number of subscribe and unsubscribe calls on the transport in a run
MaxSubCalls == 3
\* number of notifications the server sends in a run
MaxNotes == 2

\* Python's None, for the optional integers of the model
None == -1

Txs == 1..NumTxs
Counts == 0..MaxCount
\* deadline argument of wait_for_transaction: absent (None), already in the past
\* when the call starts, or still to come
Deadlines == {"none", "past", "future"}
\* how an RPC issued through the facade ends: a result, a Web3APIError, or an
\* exception of another class (a connection-level failure)
RpcOutcomes == {"ok", "api", "other"}

VARIABLES
    \* ---- Signer ----
    mined_transaction_count,  \* Signer._mined_transaction_count
    pending_transactions,     \* Signer._pending_transactions: nonce -> tx
    send_transaction_lock,    \* Signer._send_transaction_lock
    tx_nonce,                 \* Transaction.params["nonce"], per tx
    tx_signed,                \* Transaction.signed_tx: the nonce that was signed
    tx_hash,                  \* Transaction.tx_hash
    tx_receipt,               \* Transaction.receipt is not None
    calls,                    \* the Signer calls started so far, in start order
    \* ---- the node and the clock ----
    node_count,               \* what eth_getTransactionCount answers
    node_receipts,            \* the hashes eth_getTransactionReceipt has a receipt for
    \* ---- history ----
    submitted,                \* the successful submissions, in order
    lastAlloc,                \* the latest nonce allocation, while it matters
    event,                    \* what the step just taken let an observer see
    \* ---- two-way transport (IPCTransport) ----
    rpc_counter,              \* BaseTransport._rpc_counter: the value next() yields
    requests,                 \* TwoWayTransport._requests: id -> future
    listener_task,            \* PersistentListener.task (None or a task)
    is_listening,             \* PersistentListener.is_listening (the Event)
    tasks,                    \* the listener tasks created so far
    reader_writer,            \* PersistentSocket.reader_writer (None or a connection)
    conns,                    \* the connections opened so far, as the server sees them
    sends,                    \* the send_request calls, in call order
    \* ---- history ----
    issued,                   \* the request ids, in the order of the calls
    cancelledOnce,            \* the listener task was cancelled from outside
    returned,                 \* what the send_request that just ended gave its caller
    \* ---- subscriptions of the two-way transport, over one connection ----
    subscriptions,            \* the keys of TwoWayTransport._subscriptions
    queues,                   \* Subscription.queue, per subscription id
    subCalls,                 \* the subscribe and unsubscribe calls, in call order
    listening,                \* the task running TwoWayTransport.listen is alive
    wire,                     \* the messages the server has sent, not yet read
    server_inbox,             \* the requests written, not yet handled by the server
    server_subs,              \* the number of subscriptions the server has created
    server_sent,              \* the number of notifications sent, per subscription
    \* ---- history ----
    unsubscribed,             \* the ids for which unsubscribe has removed the mapping
    subReturned,              \* what the call that just ended gave its caller
    handled,                  \* what the listener did with the message it just read
    \* ---- history of the transactions ----
    tx_outcome,               \* the exception wait_for_transaction last raised about a tx
    \* ---- Signer.send_in_order_and_wait ----
    order,                    \* the position of the call in its loop over txs
    \* ---- history of the transport ----
    closes,                   \* the number of close() calls just made in a row
    \* ---- HTTPTransport ----
    http,                     \* the transport: id counter, session, calls, posts
    \* ---- EventParser ----
    events,                   \* a parser, the logs given to parse_logs, what it yielded
    \* ---- hex quantities ----
    quantity,                 \* an integer field: its value, its wire form, what was parsed
    \* ---- more history of the transport ----
    orphans,                  \* the ids in flight when a read of the listener failed
    \* ---- Transaction.sign ----
    signing,                  \* one sign() call: the params, the four fillers, the result
    \* ---- Web3Mixin / UseWeb3 ----
    mixin                     \* Web3Mixin._web3_stack, and the blocks each task is inside

signerVars == <<mined_transaction_count, pending_transactions, send_transaction_lock,
                tx_nonce, tx_signed, tx_hash, tx_receipt, calls,
                node_count, node_receipts, submitted, lastAlloc, event>>

nodeVars == <<node_count, node_receipts>>

transportVars == <<rpc_counter, requests, listener_task, is_listening, tasks,
                   reader_writer, conns, sends, issued, cancelledOnce, returned>>

subVars == <<subscriptions, queues, subCalls, listening, wire, server_inbox,
             server_subs, server_sent, unsubscribed, subReturned, handled>>

\* what the steps of the Signer, of send_request and of the subscriptions leave alone
lifeVars == <<tx_outcome, order>>

\* the variables of the parts that stand alone
miscVars == <<http, events, quantity, signing, mixin>>

besideSigner == <<transportVars, subVars, lifeVars, closes, orphans, miscVars>>

besideTransport == <<signerVars, subVars, lifeVars, closes, orphans, miscVars>>

vars == <<signerVars, transportVars, subVars, lifeVars, closes, orphans, miscVars>>

(* --------------------------- pure helpers ------------------------------ *)
MaxOf(S) == CHOOSE x \in S : \A y \in S : y <= x

Max2(a, b) == IF a >= b THEN a ELSE b

\* a faulty variant of the update below, which takes whatever the node reports;
\* the monotonicity of the mined count is tested against it
UpdateMinedOverwrite(cur, transaction_count) == transaction_count

\* Signer._update_mined_transaction_count: only ever raises the count
UpdateMined(cur, transaction_count) ==
    IF transaction_count > cur THEN transaction_count ELSE cur

\* a faulty variant of the allocation below, which hands out the largest pending
\* nonce again; the contiguity property is tested against it
NextNonceRepeating(minedCount, pend) ==
    Max2(minedCount, MaxOf(DOMAIN pend))

\* a faulty variant of the allocation below, which forgets the mined count; the
\* allocation property is tested against it
NextNonceAfterPending(minedCount, pend) ==
    MaxOf(DOMAIN pend) + 1

\* Signer._allocate_next_nonce, the branch taken when there are pending
\* transactions: no query, the next nonce after the largest pending one
NextNonceFromPending(minedCount, pend) ==
    Max2(minedCount, MaxOf(DOMAIN pend) + 1)

\* dict insert: self._pending_transactions[nonce] = tx
PendingPut(pend, nonce, tx) ==
    [n \in (DOMAIN pend) \cup {nonce} |-> IF n = nonce THEN tx ELSE pend[n]]

\* dict removal of a key that is present
PendingDel(pend, nonce) ==
    [n \in (DOMAIN pend) \ {nonce} |-> pend[n]]

\* asyncio.Lock.release: the lock goes to the longest waiting acquirer
LockRelease(lock) ==
    IF lock.waiters = <<>>
    THEN [holder |-> None, waiters |-> <<>>]
    ELSE [holder |-> Head(lock.waiters), waiters |-> Tail(lock.waiters)]

\* a faulty variant of the withdrawal below, in which a cancelled acquirer
\* releases the lock it never held; the mutual exclusion is tested against it
LockForgetReleasing(lock, c) ==
    LET rest == SelectSeq(lock.waiters, LAMBDA w : w # c)
    IN IF rest = <<>> THEN [holder |-> None, waiters |-> <<>>]
       ELSE [holder |-> Head(rest), waiters |-> Tail(rest)]

\* a cancelled acquirer leaves the queue of the lock
LockForget(lock, c) ==
    [lock EXCEPT !.waiters = SelectSeq(lock.waiters, LAMBDA w : w # c)]

NewCall(kind, tx) ==
    [kind |-> kind, tx |-> tx, pc |-> "new", nonce |-> None, passed |-> FALSE,
     deadline |-> "none", hash |-> None]

\* a call that has ended: its coroutine is gone, nothing of it is kept
Ended == [NewCall("done", None) EXCEPT !.pc = "done"]

CallIds == 1..Len(calls)

\* history: no allocation is being followed
NoAlloc == [nonce |-> None, failed |-> FALSE, signerSame |-> TRUE]

\* the step just taken ended no call and assigned no nonce
NoEvent == [type |-> "none", kind |-> "none", outcome |-> "none",
            nonce |-> None, prev |-> None, quiet |-> FALSE]

\* the step just taken ended a call of `kind`, whose caller observes `outcome`
EndEvent(kind, outcome) == [NoEvent EXCEPT !.type = "ended", !.kind = kind,
                                           !.outcome = outcome]

\* the step just taken assigned nonce n inside send_transaction; prev is the nonce
\* given to the send_transaction that failed just before (None if there is none, or
\* if the node's count changed since), quiet says that no wait_for_transaction has
\* changed the pending set or the mined count since that nonce was given
AssignEvent(n) ==
    [NoEvent EXCEPT !.type = "assigned", !.nonce = n,
                    !.prev = IF lastAlloc.failed THEN lastAlloc.nonce ELSE None,
                    !.quiet = lastAlloc.failed /\ lastAlloc.signerSame]

\* send_in_order_and_wait(txs) has not been called: it will send txs[i], it awaits
\* no send_transaction, it has created no task yet
NoOrder == [pc |-> "loop", i |-> 1, call |-> None, created |-> {}]

\* EventParser(event_specs).parse_logs(logs) before its first step: the list the
\* parser was made from, the logs, the position in them, what was yielded so far
\* and whether the iteration has raised
NewParse(event_specs, logs) ==
    [event_specs |-> event_specs, logs |-> logs, pos |-> 1, yielded |-> <<>>,
     raised |-> FALSE]

\* no parser is at work
NoParse == NewParse(<<>>, <<>>)

\* an integer field with value v, before it is put on the wire: no wire form, and
\* nothing parsed yet
NewQuantity(v) == [v |-> v, pc |-> "int", wire |-> <<>>, parsed |-> None]

\* the keys of Transaction.params that sign() reads
SignKeys == {"from", "chainId", "gas", "gasPrice", "nonce", "maxFeePerGas",
             "maxPriorityFeePerGas"}

\* the four coroutines sign() gathers, named by the key each one fills
Fillers == {"chainId", "gas", "gasPrice", "nonce"}

\* a Transaction with these params, before sign(wallet_address, key, nonce_offset,
\* gas_multiplier) is called on it: the params (None for a key that is absent),
\* the params as they were given, the fillers not yet created, the multiplier as
\* a fraction, no answer from eth_gasPrice, nothing signed
NewSigning(params, gas_multiplier, nonce_offset) ==
    [params |-> params, given |-> params, pc |-> "new",
     fillers |-> [f \in Fillers |-> "none"],
     gas_multiplier |-> gas_multiplier, nonce_offset |-> nonce_offset,
     gas_price |-> None, signed_tx |-> [k \in SignKeys |-> None]]

\* no sign() is followed
NoSigning == NewSigning([k \in SignKeys |-> None], <<1, 1>>, 0)

\* number of asyncio tasks that use UseWeb3 blocks
NumMixinTasks == 2

MixinTasks == 1..NumMixinTasks

\* Web3Mixin._web3_stack = [] at import, and no task inside a UseWeb3 block
NewMixin == [web3_stack |-> <<>>, blocks |-> [t \in MixinTasks |-> <<>>]]

\* history: no call on the HTTP transport has just ended
NoHttpReturn == [op |-> "none", outcome |-> "none", id |-> None]

\* HTTPTransport.__init__: the counter at 1, no session; no call made, nothing
\* posted to the node, no session created yet
NewHttp == [rpc_counter |-> 1, session |-> None, opened |-> 0, calls |-> <<>>,
            posted |-> {}, last |-> NoHttpReturn]

\* history: the listener has not just read a message
NoHandled == [kind |-> "none", sub |-> None, late |-> FALSE]

\* history: the step just taken ended no subscribe or unsubscribe
NoSubReturn == [kind |-> "none", outcome |-> "none", sub |-> None,
                confirmed |-> FALSE, live |-> FALSE]

\* history: the step just taken ended no send_request
NoReturn == [type |-> "none", id |-> None, response |-> None]

\* the objects after their construction
InitObjects ==
    /\ mined_transaction_count = 0
    /\ pending_transactions = << >>
    /\ send_transaction_lock = [holder |-> None, waiters |-> <<>>]
    /\ tx_nonce = [t \in Txs |-> None]
    /\ tx_signed = [t \in Txs |-> None]
    /\ tx_hash = [t \in Txs |-> None]
    /\ tx_receipt = [t \in Txs |-> FALSE]
    /\ calls = <<>>
    /\ node_count = 0
    /\ node_receipts = {}
    /\ submitted = <<>>
    /\ lastAlloc = NoAlloc
    /\ event = NoEvent
    /\ rpc_counter = 1
    /\ requests = << >>
    /\ listener_task = None
    /\ is_listening = [task |-> None, set |-> FALSE]
    /\ tasks = <<>>
    /\ reader_writer = None
    /\ conns = <<>>
    /\ sends = <<>>
    /\ issued = <<>>
    /\ cancelledOnce = FALSE
    /\ returned = NoReturn
    /\ subscriptions = {}
    /\ queues = << >>
    /\ subCalls = <<>>
    /\ listening = TRUE
    /\ wire = <<>>
    /\ server_inbox = {}
    /\ server_subs = 0
    /\ server_sent = [s \in 1..MaxSubCalls |-> 0]
    /\ unsubscribed = {}
    /\ subReturned = NoSubReturn
    /\ handled = NoHandled
    /\ tx_outcome = [t \in Txs |-> "none"]
    /\ order = NoOrder
    /\ closes = 0
    /\ http = NewHttp
    /\ orphans = {}
    /\ mixin = NewMixin

Init ==
    /\ InitObjects
    /\ events = NoParse
    /\ quantity = NewQuantity(0)
    /\ signing = NoSigning

(* ------------------------ Signer.send_transaction ---------------------- *)
\* nonce n has been allocated to call c for tx t: tx.params.update({"nonce": nonce}),
\* then tx.sign() starts and awaits its RPCs
Assigned(c, t, n, cs) ==
    /\ calls' = [cs EXCEPT ![c].nonce = n, ![c].pc = "sign"]
    /\ tx_nonce' = [tx_nonce EXCEPT ![t] = n]
    /\ lastAlloc' = [nonce |-> n, failed |-> FALSE, signerSame |-> TRUE]
    /\ event' = AssignEvent(n)

\* the start of the critical section of call c (cs holds the call already):
\* nonce = await self._allocate_next_nonce(), up to its first await
EnterCritical(c, t, cs) ==
    /\ IF DOMAIN pending_transactions # {}
       THEN Assigned(c, t,
                     NextNonceFromPending(mined_transaction_count, pending_transactions), cs)
       ELSE /\ calls' = [cs EXCEPT ![c].pc = "query"]
            /\ event' = NoEvent
            /\ UNCHANGED <<tx_nonce, lastAlloc>>
    /\ UNCHANGED <<mined_transaction_count, pending_transactions, tx_signed, tx_hash,
                   tx_receipt, submitted>>

\* the transactions that are not submitted yet and are not being sent
FreeTxs ==
    {t \in Txs : /\ tx_hash[t] = None
                 /\ \A k \in CallIds : ~(calls[k].kind = "send" /\ calls[k].tx = t)}

\* send_transaction(t) is called: async with self._send_transaction_lock, and on to
\* the first await of the call
BeginSend(t) ==
    /\ Len(calls) < MaxCalls
    /\ LET c == Len(calls) + 1
           cs == Append(calls, NewCall("send", t))
       IN IF send_transaction_lock.holder = None /\ send_transaction_lock.waiters = <<>>
          THEN /\ send_transaction_lock' = [send_transaction_lock EXCEPT !.holder = c]
               /\ EnterCritical(c, t, cs)
          ELSE /\ send_transaction_lock' =
                     [send_transaction_lock EXCEPT !.waiters = Append(@, c)]
               /\ calls' = [cs EXCEPT ![c].pc = "lock"]
               /\ event' = NoEvent
               /\ UNCHANGED <<mined_transaction_count, pending_transactions, tx_nonce,
                              tx_signed, tx_hash, tx_receipt, submitted, lastAlloc>>
    /\ UNCHANGED nodeVars

\* send_transaction(tx) is called for a free transaction (they are interchangeable,
\* the caller passes the first one)
StartSend(t) ==
    /\ t \in FreeTxs
    /\ \A u \in FreeTxs : t <= u
    /\ BeginSend(t)

\* a call that waited for the lock resumes holding it
LockAcquired(c) ==
    /\ calls[c].kind = "send" /\ calls[c].pc = "lock"
    /\ send_transaction_lock.holder = c
    /\ EnterCritical(c, calls[c].tx, calls)
    /\ UNCHANGED <<send_transaction_lock, nodeVars>>

\* a faulty variant of the failure path below, which records the transaction as
\* pending although it was not submitted; the nonce property is tested against it
FailSendConsuming(c, err) ==
    /\ calls' = [calls EXCEPT ![c] = Ended]
    /\ event' = EndEvent("send", err)
    /\ send_transaction_lock' = LockRelease(send_transaction_lock)
    /\ lastAlloc' = IF calls[c].nonce # None THEN [lastAlloc EXCEPT !.failed = TRUE]
                    ELSE NoAlloc
    /\ pending_transactions' =
           IF calls[c].nonce # None
           THEN PendingPut(pending_transactions, calls[c].nonce, calls[c].tx)
           ELSE pending_transactions
    /\ UNCHANGED <<mined_transaction_count, tx_nonce, tx_signed,
                   tx_hash, tx_receipt, submitted>>

\* send_transaction leaves the critical section with an exception: the lock is
\* released, the pending set is not touched
FailSend(c, err) ==
    /\ calls' = [calls EXCEPT ![c] = Ended]
    /\ event' = EndEvent("send", err)
    /\ send_transaction_lock' = LockRelease(send_transaction_lock)
    /\ lastAlloc' = IF calls[c].nonce # None THEN [lastAlloc EXCEPT !.failed = TRUE]
                    ELSE NoAlloc
    /\ UNCHANGED <<mined_transaction_count, pending_transactions, tx_nonce, tx_signed,
                   tx_hash, tx_receipt, submitted>>

\* except Web3APIError as e: raise FailedToSendTransactionError(tx) from e
SendError(r) == IF r = "api" THEN "FailedToSendTransactionError" ELSE "OtherError"

\* _allocate_next_nonce with no pending transactions: the answer to
\* _query_mined_transaction_count arrives
AllocQueryDone(c, r) ==
    /\ calls[c].kind = "send" /\ calls[c].pc = "query"
    /\ IF r = "ok"
       THEN LET m == UpdateMined(mined_transaction_count, node_count)
            IN /\ mined_transaction_count' = m
               /\ Assigned(c, calls[c].tx, m, calls)
               /\ UNCHANGED <<send_transaction_lock, pending_transactions, tx_signed,
                              tx_hash, tx_receipt, submitted>>
       ELSE FailSend(c, SendError(r))
    /\ UNCHANGED nodeVars

\* await tx.sign(...) ends; on success tx.send() starts
SignDone(c, r) ==
    /\ calls[c].kind = "send" /\ calls[c].pc = "sign"
    /\ IF r = "ok"
       THEN /\ tx_signed' = [tx_signed EXCEPT ![calls[c].tx] = tx_nonce[calls[c].tx]]
            /\ calls' = [calls EXCEPT ![c].pc = "send"]
            /\ event' = NoEvent
            /\ UNCHANGED <<send_transaction_lock, lastAlloc, mined_transaction_count,
                           pending_transactions, tx_nonce, tx_hash, tx_receipt, submitted>>
       ELSE FailSend(c, SendError(r))
    /\ UNCHANGED nodeVars

\* await tx.send() ends; on success self._pending_transactions[nonce] = tx
SendDone(c, r) ==
    /\ calls[c].kind = "send" /\ calls[c].pc = "send"
    /\ IF r = "ok"
       THEN /\ tx_hash' = [tx_hash EXCEPT ![calls[c].tx] = c]
            /\ pending_transactions' =
                   PendingPut(pending_transactions, calls[c].nonce, calls[c].tx)
            /\ submitted' = Append(submitted, [call |-> c, tx |-> calls[c].tx,
                                               nonce |-> calls[c].nonce])
            /\ calls' = [calls EXCEPT ![c] = Ended]
            /\ event' = EndEvent("send", "ok")
            /\ send_transaction_lock' = LockRelease(send_transaction_lock)
            /\ lastAlloc' = NoAlloc
            /\ UNCHANGED <<mined_transaction_count, tx_nonce, tx_signed, tx_receipt>>
       ELSE FailSend(c, SendError(r))
    /\ UNCHANGED nodeVars

\* the task running send_transaction is cancelled at one of its awaits
CancelSend(c) ==
    /\ calls[c].kind = "send" /\ calls[c].pc \in {"lock", "query", "sign", "send"}
    /\ calls' = [calls EXCEPT ![c] = Ended]
    /\ event' = EndEvent("send", "CancelledError")
    /\ IF send_transaction_lock.holder = c
       THEN /\ send_transaction_lock' = LockRelease(send_transaction_lock)
            /\ lastAlloc' = IF calls[c].pc = "lock" THEN lastAlloc
                            ELSE IF calls[c].nonce # None
                            THEN [lastAlloc EXCEPT !.failed = TRUE] ELSE NoAlloc
       ELSE /\ send_transaction_lock' = LockForget(send_transaction_lock, c)
            /\ UNCHANGED lastAlloc
    /\ UNCHANGED <<mined_transaction_count, pending_transactions, tx_nonce, tx_signed,
                   tx_hash, tx_receipt, submitted, nodeVars>>

(* ---------------------- Signer.wait_for_transaction -------------------- *)
\* history: lastAlloc after a step of wait_for_transaction that left the pending
\* set and the mined count as they were (same), or did not
Followed(same) ==
    IF lastAlloc.nonce = None THEN lastAlloc
    ELSE [lastAlloc EXCEPT !.signerSame = @ /\ same]

\* the way out of wait_for_transaction for the call in record `call`: the body
\* ended with `own` and left the mined count at m, and the finally clause runs
\* self._pending_transactions.pop(nonce), which raises KeyError on a missing key
Finish(call, own, m) ==
    LET n == call.nonce
        found == n \in DOMAIN pending_transactions
    IN /\ mined_transaction_count' = m
       /\ pending_transactions' =
              IF found THEN PendingDel(pending_transactions, n) ELSE pending_transactions
       /\ event' = EndEvent("wait", IF found THEN own ELSE "KeyError")
       /\ lastAlloc' = Followed(~found /\ m = mined_transaction_count)

\* wait_for_transaction(tx, deadline) is called; with a receipt already there
\* the loop is skipped, otherwise the call sleeps 3 s and queries the count
StartWait(t, d) ==
    /\ Len(calls) < MaxCalls
    /\ tx_hash[t] # None /\ tx_nonce[t] # None
    /\ LET c == Len(calls) + 1
           call == [NewCall("wait", t) EXCEPT !.nonce = tx_nonce[t], !.deadline = d]
       IN IF tx_receipt[t]
          THEN /\ Finish(call, "ok", UpdateMined(mined_transaction_count, call.nonce + 1))
               /\ calls' = Append(calls, Ended)
          ELSE /\ calls' = Append(calls, [call EXCEPT !.pc = "count"])
               /\ event' = NoEvent
               /\ UNCHANGED <<mined_transaction_count, pending_transactions, lastAlloc>>
    /\ UNCHANGED <<send_transaction_lock, tx_nonce, tx_signed, tx_hash, tx_receipt,
                   submitted, nodeVars>>

\* await asyncio.sleep(3) is over and the count query that follows it ends (a
\* Web3APIError is logged); nonce_has_passed is computed and tx.check_receipt()
\* is called, which polls for the receipt of tx.tx_hash
WaitCountDone(c, r) ==
    /\ calls[c].kind = "wait" /\ calls[c].pc = "count"
    /\ IF r = "other"
       THEN /\ Finish(calls[c], "OtherError", mined_transaction_count)
            /\ calls' = [calls EXCEPT ![c] = Ended]
       ELSE LET m == IF r = "ok" THEN UpdateMined(mined_transaction_count, node_count)
                     ELSE mined_transaction_count
            IN /\ mined_transaction_count' = m
               /\ calls' = [calls EXCEPT ![c].passed = (calls[c].nonce < m),
                                         ![c].hash = tx_hash[calls[c].tx],
                                         ![c].pc = "receipt"]
               /\ lastAlloc' = Followed(m = mined_transaction_count)
               /\ event' = NoEvent
               /\ UNCHANGED pending_transactions
    /\ UNCHANGED <<send_transaction_lock, tx_nonce, tx_signed, tx_hash, tx_receipt,
                   submitted, nodeVars>>

\* what wait_for_transaction does once check_receipt has returned or raised a
\* Web3APIError: the two raises, the loop condition, the update after the loop
Decide(c, receipt) ==
    IF ~receipt /\ calls[c].passed
    THEN /\ Finish(calls[c], "FailedToGetReceiptError", mined_transaction_count)
         /\ calls' = [calls EXCEPT ![c] = Ended]
    ELSE IF calls[c].deadline = "past"
    THEN /\ Finish(calls[c], "WaitForTransactionTimeoutError", mined_transaction_count)
         /\ calls' = [calls EXCEPT ![c] = Ended]
    ELSE IF ~receipt
    THEN /\ calls' = [calls EXCEPT ![c].pc = "count", ![c].passed = FALSE,
                                   ![c].hash = None]
         /\ event' = NoEvent
         /\ UNCHANGED <<mined_transaction_count, pending_transactions, lastAlloc>>
    ELSE /\ Finish(calls[c], "ok",
                   UpdateMined(mined_transaction_count, calls[c].nonce + 1))
         /\ calls' = [calls EXCEPT ![c] = Ended]

\* one eth_getTransactionReceipt of AioWeb3.wait_for_transaction_receipt ends:
\* a receipt is returned to check_receipt; no receipt makes it sleep and ask again
WaitReceiptDone(c, r) ==
    /\ calls[c].kind = "wait" /\ calls[c].pc = "receipt"
    /\ LET t == calls[c].tx
       IN IF r = "other"
          THEN /\ Finish(calls[c], "OtherError", mined_transaction_count)
               /\ calls' = [calls EXCEPT ![c] = Ended]
               /\ UNCHANGED tx_receipt
          ELSE IF r = "api"
          THEN /\ Decide(c, tx_receipt[t])
               /\ UNCHANGED tx_receipt
          ELSE IF calls[c].hash \in node_receipts
          THEN /\ tx_receipt' = [tx_receipt EXCEPT ![t] = TRUE]
               /\ Decide(c, TRUE)
          ELSE /\ calls' = [calls EXCEPT ![c].pc = "rsleep"]
               /\ event' = NoEvent
               /\ UNCHANGED <<tx_receipt, mined_transaction_count, pending_transactions,
                              lastAlloc>>
    /\ UNCHANGED <<send_transaction_lock, tx_nonce, tx_signed, tx_hash,
                   submitted, nodeVars>>

\* await asyncio.sleep(poll_interval) inside wait_for_transaction_receipt ends
\* and the receipt is asked for again
WaitPollSleepDone(c) ==
    /\ calls[c].kind = "wait" /\ calls[c].pc = "rsleep"
    /\ calls' = [calls EXCEPT ![c].pc = "receipt"]
    /\ event' = NoEvent
    /\ UNCHANGED <<mined_transaction_count, pending_transactions, send_transaction_lock,
                   tx_nonce, tx_signed, tx_hash, tx_receipt, submitted, lastAlloc,
                   nodeVars>>

\* the task running wait_for_transaction is cancelled at one of its awaits
CancelWait(c) ==
    /\ calls[c].kind = "wait" /\ calls[c].pc \in {"count", "receipt", "rsleep"}
    /\ Finish(calls[c], "CancelledError", mined_transaction_count)
    /\ calls' = [calls EXCEPT ![c] = Ended]
    /\ UNCHANGED <<send_transaction_lock, tx_nonce, tx_signed, tx_hash, tx_receipt,
                   submitted, nodeVars>>

(* ------------------------- the node and the clock ---------------------- *)
\* the count the node reports grows: more transactions of the wallet are mined
NodeSetCount(n) ==
    /\ n > node_count
    /\ node_count' = n
    /\ lastAlloc' = NoAlloc
    /\ event' = NoEvent
    /\ UNCHANGED <<mined_transaction_count, pending_transactions, send_transaction_lock,
                   tx_nonce, tx_signed, tx_hash, tx_receipt, calls, submitted,
                   node_receipts>>

\* a submitted transaction is mined: the node has a receipt for its hash
NodeMine(h) ==
    /\ h \in {submitted[i].call : i \in 1..Len(submitted)} \ node_receipts
    /\ node_receipts' = node_receipts \cup {h}
    /\ event' = NoEvent
    /\ UNCHANGED <<mined_transaction_count, pending_transactions, send_transaction_lock,
                   tx_nonce, tx_signed, tx_hash, tx_receipt, calls, submitted,
                   lastAlloc, node_count>>

\* time passes: the deadline of call c is now in the past (time.time() > deadline)
DeadlinePasses(c) ==
    /\ calls[c].kind = "wait" /\ calls[c].deadline = "future"
    /\ calls' = [calls EXCEPT ![c].deadline = "past"]
    /\ event' = NoEvent
    /\ UNCHANGED <<mined_transaction_count, pending_transactions, send_transaction_lock,
                   tx_nonce, tx_signed, tx_hash, tx_receipt, submitted,
                   lastAlloc, node_count, node_receipts>>

SignerNext ==
    \/ \E t \in Txs : StartSend(t) /\ UNCHANGED besideSigner
    \/ \E c \in CallIds : LockAcquired(c) /\ UNCHANGED besideSigner
    \/ \E c \in CallIds, r \in RpcOutcomes : AllocQueryDone(c, r) /\ UNCHANGED besideSigner
    \/ \E c \in CallIds, r \in RpcOutcomes : SignDone(c, r) /\ UNCHANGED besideSigner
    \/ \E c \in CallIds, r \in RpcOutcomes : SendDone(c, r) /\ UNCHANGED besideSigner
    \/ \E c \in CallIds : CancelSend(c) /\ UNCHANGED besideSigner
    \/ \E t \in Txs, d \in Deadlines : StartWait(t, d) /\ UNCHANGED besideSigner
    \/ \E c \in CallIds, r \in RpcOutcomes : WaitCountDone(c, r) /\ UNCHANGED besideSigner
    \/ \E c \in CallIds, r \in RpcOutcomes : WaitReceiptDone(c, r) /\ UNCHANGED besideSigner
    \/ \E c \in CallIds : WaitPollSleepDone(c) /\ UNCHANGED besideSigner
    \/ \E c \in CallIds : CancelWait(c) /\ UNCHANGED besideSigner
    \/ \E n \in Counts : NodeSetCount(n) /\ UNCHANGED besideSigner
    \/ \E h \in CallIds : NodeMine(h) /\ UNCHANGED besideSigner
    \/ \E c \in CallIds : DeadlinePasses(c) /\ UNCHANGED besideSigner

SignerSpec == Init /\ [][SignerNext]_vars

\* only send_transaction calls are made on the Signer: no wait_for_transaction
SendNext ==
    \/ \E t \in Txs : StartSend(t) /\ UNCHANGED besideSigner
    \/ \E c \in CallIds : LockAcquired(c) /\ UNCHANGED besideSigner
    \/ \E c \in CallIds, r \in RpcOutcomes : AllocQueryDone(c, r) /\ UNCHANGED besideSigner
    \/ \E c \in CallIds, r \in RpcOutcomes : SignDone(c, r) /\ UNCHANGED besideSigner
    \/ \E c \in CallIds, r \in RpcOutcomes : SendDone(c, r) /\ UNCHANGED besideSigner
    \/ \E c \in CallIds : CancelSend(c) /\ UNCHANGED besideSigner
    \/ \E n \in Counts : NodeSetCount(n) /\ UNCHANGED besideSigner

SendSpec == Init /\ [][SendNext]_vars

\* the count the node reports goes back: a node behind a balancer lags, or the
\* chain is reorganised
NodeLowerCount(n) ==
    /\ n < node_count
    /\ node_count' = n
    /\ lastAlloc' = NoAlloc
    /\ event' = NoEvent
    /\ UNCHANGED <<mined_transaction_count, pending_transactions, send_transaction_lock,
                   tx_nonce, tx_signed, tx_hash, tx_receipt, calls, submitted,
                   node_receipts>>

\* the Signer against a node whose reported count may also go back; the waits
\* have no deadline here (a wait that times out leaves the mined count as a
\* cancelled one does)
LaggingNext ==
    \/ \E t \in Txs : StartSend(t) /\ UNCHANGED besideSigner
    \/ \E c \in CallIds : LockAcquired(c) /\ UNCHANGED besideSigner
    \/ \E c \in CallIds, r \in RpcOutcomes : AllocQueryDone(c, r) /\ UNCHANGED besideSigner
    \/ \E c \in CallIds, r \in RpcOutcomes : SignDone(c, r) /\ UNCHANGED besideSigner
    \/ \E c \in CallIds, r \in RpcOutcomes : SendDone(c, r) /\ UNCHANGED besideSigner
    \/ \E c \in CallIds : CancelSend(c) /\ UNCHANGED besideSigner
    \/ \E t \in Txs : StartWait(t, "none") /\ UNCHANGED besideSigner
    \/ \E c \in CallIds, r \in RpcOutcomes : WaitCountDone(c, r) /\ UNCHANGED besideSigner
    \/ \E c \in CallIds, r \in RpcOutcomes : WaitReceiptDone(c, r) /\ UNCHANGED besideSigner
    \/ \E c \in CallIds : WaitPollSleepDone(c) /\ UNCHANGED besideSigner
    \/ \E c \in CallIds : CancelWait(c) /\ UNCHANGED besideSigner
    \/ \E n \in Counts : NodeSetCount(n) /\ UNCHANGED besideSigner
    \/ \E n \in Counts : NodeLowerCount(n) /\ UNCHANGED besideSigner
    \/ \E h \in CallIds : NodeMine(h) /\ UNCHANGED besideSigner

LaggingSpec == Init /\ [][LaggingNext]_vars

(* ------------------------- properties of the Signer -------------------- *)
SubmittedIds == 1..Len(submitted)

\* C1: of two transactions submitted through the Signer, the one submitted first
\* has the strictly smaller nonce
NoncesStrictlyIncrease ==
    \A i, j \in SubmittedIds : i < j => submitted[i].nonce < submitted[j].nonce

\* C2: a wait_for_transaction that has seen the node's count move past its nonce
\* does not go on polling for the receipt: it ends at that poll iteration
DroppedEndsAtNextPoll ==
    [][\A c \in CallIds :
          calls[c].kind = "wait" /\ calls[c].passed => calls'[c].pc # "rsleep"]_vars

\* C3: a wait_for_transaction whose deadline has passed does not go on polling
\* for the receipt: it ends at that poll iteration
ExpiredEndsAtNextPoll ==
    [][\A c \in CallIds :
          calls[c].kind = "wait" /\ calls[c].deadline = "past"
              => calls'[c].pc # "rsleep"]_vars

\* C6: when every send_transaction started on a Signer with an empty pending set
\* has succeeded, the k-th call started was given nonce n0 + k - 1, n0 being the
\* mined count of the first allocation (no later step changes it when only sends
\* run), and every transaction is in the pending set under its nonce
AllSendsSucceeded ==
    /\ calls # <<>>
    /\ \A c \in CallIds : calls[c] = Ended
    /\ Len(submitted) = Len(calls)

ConcurrentSendsContiguous ==
    AllSendsSucceeded =>
        \A k \in SubmittedIds :
            /\ submitted[k].call = k
            /\ submitted[k].nonce = mined_transaction_count + k - 1
            /\ submitted[k].nonce \in DOMAIN pending_transactions
            /\ pending_transactions[submitted[k].nonce] = submitted[k].tx

\* three sends have succeeded, starting from a mined count of 1
ThreeSendsFromOne ==
    /\ AllSendsSucceeded
    /\ Len(submitted) = 3
    /\ mined_transaction_count = 1
    /\ submitted[3].nonce = 3
    /\ DOMAIN pending_transactions = {1, 2, 3}

\* C9: the caller of a wait_for_transaction that ends observes the outcome of
\* that call, and the entry of its nonce is not in the pending set
WaitEndsWithOwnOutcome ==
    event.type = "ended" /\ event.kind = "wait" => event.outcome # "KeyError"

\* C10: the send_transaction that follows a failed one is given the nonce of the
\* failed one, if the node's count is unchanged and no wait_for_transaction has
\* changed the pending set or the mined count in between
FailedNonceGivenAgain ==
    event.type = "assigned" /\ event.prev # None /\ event.quiet
        => event.nonce = event.prev

\* a nonce was given again after a failure, with a wait_for_transaction running
NonceGivenAgain ==
    /\ event.type = "assigned" /\ event.prev # None /\ event.quiet
    /\ event.nonce = event.prev
    /\ \E c \in CallIds : calls[c].kind = "wait"

\* C10 as stated: the send_transaction that follows a failed one is given the
\* nonce of the failed one whenever the node's count is unchanged (looked at in
\* runs where no nonce has been submitted twice)
FailedNonceGivenAgainAlways ==
    /\ event.type = "assigned" /\ event.prev # None
    /\ NoncesStrictlyIncrease
    /\ \A i \in SubmittedIds : submitted[i].nonce # event.nonce
    => event.nonce = event.prev

(* =========================== IPCTransport ============================== *)
SendIds == 1..Len(sends)

TaskIds == 1..Len(tasks)

\* the result the server puts in its response to the request with id i
ResultOf(i) == i + 100

\* the values of the error field of a ResponseMessage: JSON null, a value that is
\* not null but false for Python (0, "", {}), and an error object
ErrorValues == {"null", "empty", "object"}

\* if response.error: the test send_request makes
Truthy(e) == e = "object"

\* no ResponseMessage
NoResponse == [id |-> None, result |-> None, error |-> "null"]

\* asyncio futures of the outstanding table
PendingFuture == [state |-> "pending", response |-> NoResponse]

CancelledFuture == [state |-> "cancelled", response |-> NoResponse]

\* a listener task that create_task has just made, and one that has finished
NewTask == [pc |-> "created", cancel |-> FALSE, conn |-> None]

DoneTask == [pc |-> "done", cancel |-> FALSE, conn |-> None]

\* a connection the client has closed or the server has dropped
ClosedConn == [open |-> FALSE, inbox |-> {}]

NewSend(id) == [pc |-> "new", id |-> id, ev |-> None, at |-> "none", why |-> "none"]

\* a send_request that has ended: nothing of it is kept
EndedSend == [NewSend(None) EXCEPT !.pc = "done"]

\* a faulty variant of the counter below, which yields the same value again; the
\* property of the ids is tested against it
RpcCounterStuck(n) == n

\* itertools.count(1): the value after n
RpcCounterNext(n) == n + 1

\* self._requests[request.id] = fut
TablePut(tbl, id, fut) ==
    [i \in (DOMAIN tbl) \cup {id} |-> IF i = id THEN fut ELSE tbl[i]]

\* a faulty variant of the removal below, which leaves the entry in the table;
\* the property of the outstanding table is tested against it
TableKeep(tbl, id) == tbl

\* del self._requests[request.id]
TableDel(tbl, id) ==
    [i \in (DOMAIN tbl) \ {id} |-> tbl[i]]

\* a faulty variant of the handler below, which gives the response to the oldest
\* request still waiting; the matching of responses is tested against it
handle_response_oldest(tbl, response) ==
    LET waiting == {i \in DOMAIN tbl : tbl[i].state = "pending"}
    IN IF waiting = {} THEN tbl
       ELSE LET i == CHOOSE x \in waiting : \A y \in waiting : x <= y
            IN [tbl EXCEPT ![i] = [state |-> "done", response |-> response]]

\* TwoWayTransport._handle_response_message: the table after set_result on the
\* future of response.id (an unsolicited response is only logged)
handle_response_message(tbl, response) ==
    IF response.id \in DOMAIN tbl /\ tbl[response.id].state = "pending"
    THEN [tbl EXCEPT ![response.id] = [state |-> "done", response |-> response]]
    ELSE tbl

\* set_result on a future that is done or cancelled raises InvalidStateError
handle_response_raises(tbl, response) ==
    response.id \in DOMAIN tbl /\ tbl[response.id].state # "pending"

\* PersistentListener.is_ready: self.is_listening.set(), if there is an Event
IsReady(ev) == IF ev.task = None THEN ev ELSE [ev EXCEPT !.set = TRUE]

\* a faulty variant of the cancellation below, which leaves the task running; the
\* single reader is tested against it
CancelTaskNot(ts, t) == ts

\* task.cancel(): a finished task is left alone
CancelTask(ts, t) ==
    IF t = None THEN ts
    ELSE IF ts[t].pc = "done" THEN ts
    ELSE [ts EXCEPT ![t].cancel = TRUE]

\* writer.close() on connection k
CloseConn(cs, k) == IF k = None THEN cs ELSE [cs EXCEPT ![k] = ClosedConn]

(* --------------------- BaseTransport.send_request ---------------------- *)
\* await self.send(data) of call c (ss holds the call): IPCTransport.send enters
\* the socket, which connects first if there is no connection, and writes
EnterSend(c, ss, id) ==
    IF reader_writer = None
    THEN /\ sends' = [ss EXCEPT ![c].pc = "connecting"]
         /\ UNCHANGED <<conns, reader_writer>>
    ELSE /\ sends' = [ss EXCEPT ![c].pc = "await_fut"]
         /\ conns' = [conns EXCEPT ![reader_writer].inbox = @ \cup {id}]
         /\ UNCHANGED reader_writer

\* send_request is called: the id is taken, _send_request registers the future
\* and enters the listener, which starts a listening task if none is alive
StartRequest ==
    /\ Len(sends) < MaxRequests
    /\ LET id == rpc_counter
           c == Len(sends) + 1
           t == Len(tasks) + 1
       IN /\ rpc_counter' = RpcCounterNext(rpc_counter)
          /\ issued' = Append(issued, id)
          /\ requests' = TablePut(requests, id, PendingFuture)
          /\ IF listener_task = None \/ tasks[listener_task].pc = "done"
             THEN /\ Len(tasks) < MaxTasks
                  /\ is_listening' = [task |-> t, set |-> FALSE]
                  /\ tasks' = Append(tasks, NewTask)
                  /\ listener_task' = t
                  /\ sends' = Append(sends, [NewSend(id) EXCEPT !.pc = "ready_wait",
                                                                 !.ev = t])
                  /\ UNCHANGED <<reader_writer, conns>>
             ELSE /\ EnterSend(c, Append(sends, NewSend(id)), id)
                  /\ UNCHANGED <<tasks, listener_task, is_listening>>
    /\ returned' = NoReturn
    /\ UNCHANGED cancelledOnce

\* await self.is_listening.wait() returns: the Event the call made has been set
ReadyResume(c) ==
    /\ sends[c].pc = "ready_wait"
    /\ is_listening.task = sends[c].ev /\ is_listening.set
    /\ EnterSend(c, sends, sends[c].id)
    /\ returned' = NoReturn
    /\ UNCHANGED <<rpc_counter, requests, listener_task, is_listening, tasks, issued,
                   cancelledOnce>>

\* the way out of send_request for call c: finally: del self._requests[request.id],
\* then the caller gets a result or an exception
EndWith(c, type, response) ==
    /\ sends' = [sends EXCEPT ![c] = EndedSend]
    /\ requests' = TableDel(requests, sends[c].id)
    /\ returned' = [type |-> type, id |-> sends[c].id, response |-> response]

\* PersistentListener.__aexit__ with an exception: the task is cancelled, forgotten
ListenerAbort ==
    /\ tasks' = CancelTask(tasks, listener_task)
    /\ listener_task' = None

\* open_unix_connection of the socket's __aenter__ ends for the sending call c
SenderConnectDone(c, ok) ==
    /\ sends[c].pc = "connecting"
    /\ IF ok
       THEN /\ Len(conns) < MaxConns
            /\ conns' = Append(conns, [open |-> TRUE, inbox |-> {sends[c].id}])
            /\ reader_writer' = Len(conns) + 1
            /\ sends' = [sends EXCEPT ![c].pc = "await_fut"]
            /\ returned' = NoReturn
            /\ UNCHANGED <<requests, tasks, listener_task>>
       ELSE /\ ListenerAbort
            /\ EndWith(c, "OtherError", NoResponse)
            /\ UNCHANGED <<conns, reader_writer>>
    /\ UNCHANGED <<rpc_counter, is_listening, issued, cancelledOnce>>

\* result = await fut returns: the listener is left without an exception, the
\* entry is deleted, an error response becomes a Web3APIError
Resume(c) ==
    /\ sends[c].pc = "await_fut"
    /\ requests[sends[c].id].state = "done"
    /\ LET response == requests[sends[c].id].response
       IN EndWith(c, IF Truthy(response.error) THEN "Web3APIError" ELSE "result",
                  response)
    /\ UNCHANGED <<rpc_counter, listener_task, is_listening, tasks, reader_writer,
                   conns, issued, cancelledOnce>>

\* the timeout of wait_for fires, or the caller's task is cancelled: the future
\* the call is waiting on is cancelled at once, the call itself resumes later
\* (wait_for gives control back to the caller only when _send_request has finished,
\* as asyncio does since Python 3.9)
Interrupt(c, why) ==
    /\ sends[c].pc \in {"ready_wait", "connecting", "await_fut"}
    /\ sends' = [sends EXCEPT ![c].pc = "cancelling", ![c].at = sends[c].pc,
                              ![c].why = why]
    /\ requests' = IF sends[c].pc = "await_fut" /\ requests[sends[c].id].state = "pending"
                   THEN [requests EXCEPT ![sends[c].id] = CancelledFuture]
                   ELSE requests
    /\ returned' = NoReturn
    /\ UNCHANGED <<rpc_counter, listener_task, is_listening, tasks, reader_writer,
                   conns, issued, cancelledOnce>>

\* a faulty variant of the cleanup below, which lets the TimeoutError of wait_for
\* through as it is; the outcome of a timeout is tested against it
CancelCleanupUnconverted(c) ==
    /\ sends[c].pc = "cancelling"
    /\ IF sends[c].at = "ready_wait"
       THEN UNCHANGED <<tasks, listener_task>>
       ELSE ListenerAbort
    /\ EndWith(c, IF sends[c].why = "timeout" THEN "TimeoutError"
                  ELSE "CancelledError", NoResponse)
    /\ UNCHANGED <<rpc_counter, is_listening, reader_writer, conns, issued,
                   cancelledOnce>>

\* the interrupted call resumes with CancelledError: inside the listener's body the
\* listener is aborted, the entry is deleted, a timeout becomes a Web3TimeoutError
CancelCleanup(c) ==
    /\ sends[c].pc = "cancelling"
    /\ IF sends[c].at = "ready_wait"
       THEN UNCHANGED <<tasks, listener_task>>
       ELSE ListenerAbort
    /\ EndWith(c, IF sends[c].why = "timeout" THEN "Web3TimeoutError"
                  ELSE "CancelledError", NoResponse)
    /\ UNCHANGED <<rpc_counter, is_listening, reader_writer, conns, issued,
                   cancelledOnce>>

(* ------------------------ TwoWayTransport.listen ----------------------- *)
\* msg = await self.receive() of task g begins (ts holds the tasks): the socket is
\* entered, connecting first if there is no connection, is_ready() is called and
\* the task reads from the connection
Receive(g, ts) ==
    IF reader_writer = None
    THEN /\ tasks' = [ts EXCEPT ![g].pc = "connecting", ![g].conn = None]
         /\ UNCHANGED is_listening
    ELSE /\ tasks' = [ts EXCEPT ![g].pc = "reading", ![g].conn = reader_writer]
         /\ is_listening' = IsReady(is_listening)

\* the listening task g runs for the first time
ListenerRun(g) ==
    /\ tasks[g].pc = "created" /\ ~tasks[g].cancel
    /\ Receive(g, tasks)
    /\ returned' = NoReturn
    /\ UNCHANGED <<rpc_counter, requests, listener_task, reader_writer, conns, sends,
                   issued, cancelledOnce>>

\* open_unix_connection of the socket's __aenter__ ends for the listening task g
ListenerConnectDone(g, ok) ==
    /\ tasks[g].pc = "connecting" /\ ~tasks[g].cancel
    /\ IF ok
       THEN /\ Len(conns) < MaxConns
            /\ conns' = Append(conns, [open |-> TRUE, inbox |-> {}])
            /\ reader_writer' = Len(conns) + 1
            /\ tasks' = [tasks EXCEPT ![g].pc = "reading", ![g].conn = Len(conns) + 1]
            /\ is_listening' = IsReady(is_listening)
       ELSE /\ tasks' = [tasks EXCEPT ![g] = DoneTask]
            /\ UNCHANGED <<conns, reader_writer, is_listening>>
    /\ returned' = NoReturn
    /\ UNCHANGED <<rpc_counter, requests, listener_task, sends, issued, cancelledOnce>>

\* reader.readuntil() of task g returns the server's response to request i, which
\* the server sends once, in any order; the message is parsed and handled, and
\* the task receives again unless the handler raised
ListenerRead(g, i, err) ==
    /\ tasks[g].pc = "reading" /\ ~tasks[g].cancel
    /\ conns[tasks[g].conn].open
    /\ i \in conns[tasks[g].conn].inbox
    /\ LET response == [id |-> i, result |-> ResultOf(i), error |-> err]
       IN /\ requests' = handle_response_message(requests, response)
          /\ IF handle_response_raises(requests, response)
             THEN /\ tasks' = [tasks EXCEPT ![g] = DoneTask]
                  /\ UNCHANGED is_listening
             ELSE Receive(g, tasks)
    /\ conns' = [conns EXCEPT ![tasks[g].conn].inbox = @ \ {i}]
    /\ returned' = NoReturn
    /\ UNCHANGED <<rpc_counter, listener_task, reader_writer, sends, issued,
                   cancelledOnce>>

\* a faulty variant of the failed read below, in which the listener cancels the
\* futures of the outstanding table before it ends; the fate of the requests in
\* flight is tested against it
ListenerReadFailCancelling(g) ==
    /\ tasks[g].pc = "reading" /\ ~tasks[g].cancel
    /\ conns' = CloseConn(CloseConn(conns, tasks[g].conn), reader_writer)
    /\ reader_writer' = None
    /\ tasks' = [tasks EXCEPT ![g] = DoneTask]
    /\ requests' = [i \in DOMAIN requests |-> CancelledFuture]
    /\ returned' = NoReturn
    /\ UNCHANGED <<rpc_counter, listener_task, is_listening, sends, issued,
                   cancelledOnce>>

\* reader.readuntil() of task g raises (the connection is lost): the socket's
\* __aexit__ closes the writer and forgets the connection, the task ends
ListenerReadFail(g) ==
    /\ tasks[g].pc = "reading" /\ ~tasks[g].cancel
    /\ conns' = CloseConn(CloseConn(conns, tasks[g].conn), reader_writer)
    /\ reader_writer' = None
    /\ tasks' = [tasks EXCEPT ![g] = DoneTask]
    /\ returned' = NoReturn
    /\ UNCHANGED <<rpc_counter, requests, listener_task, is_listening, sends, issued,
                   cancelledOnce>>

\* the cancelled task g gets its CancelledError: while reading, the socket's
\* __aexit__ closes the writer and forgets the connection
ListenerCancelled(g) ==
    /\ tasks[g].pc # "done" /\ tasks[g].cancel
    /\ IF tasks[g].pc = "reading"
       THEN /\ conns' = CloseConn(conns, reader_writer)
            /\ reader_writer' = None
       ELSE UNCHANGED <<conns, reader_writer>>
    /\ tasks' = [tasks EXCEPT ![g] = DoneTask]
    /\ returned' = NoReturn
    /\ UNCHANGED <<rpc_counter, requests, listener_task, is_listening, sends, issued,
                   cancelledOnce>>

\* the listening task is cancelled from outside the transport, once
ExternalCancelListener ==
    /\ ~cancelledOnce
    /\ listener_task # None
    /\ tasks[listener_task].pc # "done" /\ ~tasks[listener_task].cancel
    /\ tasks' = [tasks EXCEPT ![listener_task].cancel = TRUE]
    /\ cancelledOnce' = TRUE
    /\ returned' = NoReturn
    /\ UNCHANGED <<rpc_counter, requests, listener_task, is_listening, reader_writer,
                   conns, sends, issued>>

TransportNext ==
    \/ StartRequest /\ UNCHANGED besideTransport
    \/ \E c \in SendIds : ReadyResume(c) /\ UNCHANGED besideTransport
    \/ \E c \in SendIds, ok \in BOOLEAN : SenderConnectDone(c, ok) /\ UNCHANGED besideTransport
    \/ \E c \in SendIds : Resume(c) /\ UNCHANGED besideTransport
    \/ \E c \in SendIds, why \in {"timeout", "cancel"} :
           Interrupt(c, why) /\ UNCHANGED besideTransport
    \/ \E c \in SendIds : CancelCleanup(c) /\ UNCHANGED besideTransport
    \/ \E g \in TaskIds : ListenerRun(g) /\ UNCHANGED besideTransport
    \/ \E g \in TaskIds, ok \in BOOLEAN : ListenerConnectDone(g, ok) /\ UNCHANGED besideTransport
    \/ \E g \in TaskIds, i \in 1..MaxRequests, err \in ErrorValues :
           ListenerRead(g, i, err) /\ UNCHANGED besideTransport
    \/ \E g \in TaskIds : ListenerReadFail(g) /\ UNCHANGED besideTransport
    \/ \E g \in TaskIds : ListenerCancelled(g) /\ UNCHANGED besideTransport
    \/ ExternalCancelListener /\ UNCHANGED besideTransport

TransportSpec == Init /\ [][TransportNext]_vars

(* ------------------------ properties of the transport ------------------ *)
\* C4: a send_request that gets a response gets the response whose id is the id
\* of its request, with the result the server gave to that request
ReturnsOwnResponse ==
    returned.type \in {"result", "Web3APIError"} =>
        /\ returned.response.id = returned.id
        /\ returned.response.result = ResultOf(returned.id)

\* the second request returns its result while the first, written before it on
\* the same connection, is still waiting for its response
ReturnsOutOfOrder ==
    /\ returned.type = "result" /\ returned.id = 2
    /\ Len(sends) >= 1 /\ sends[1].pc = "await_fut"
    /\ requests[1].state = "pending"
    /\ \E k \in 1..Len(conns) : 1 \in conns[k].inbox

\* C5: the k-th send_request carries id k
IdsFollowCallOrder ==
    \A k \in 1..Len(issued) : issued[k] = k

\* the third call was given its id after a call timed out
ThirdIdAfterTimeout ==
    /\ Len(issued) = 3 /\ issued[3] = 3
    /\ \E c \in SendIds : sends[c] = EndedSend
    /\ \E c \in SendIds : sends[c].pc = "cancelling" /\ sends[c].why = "timeout"

\* C7: a send_request issued after the listener task was cancelled from outside
\* goes on to send only with a listener task that is alive and has not been asked
\* to cancel (otherwise it waits for the task it has started)
RestartsBeforeWriting ==
    [][cancelledOnce /\ Len(sends') > Len(sends)
          /\ sends'[Len(sends')].pc \in {"connecting", "await_fut"}
          => /\ listener_task' # None
             /\ tasks'[listener_task'].pc # "done"
             /\ ~tasks'[listener_task'].cancel]_vars

\* C8: the outstanding table holds exactly the ids of the send_request calls in
\* flight, and the id of a call that ends is gone when its caller resumes
InFlightIds == {sends[c].id : c \in {d \in SendIds : sends[d].pc # "done"}}

TableHoldsInFlight ==
    /\ DOMAIN requests = InFlightIds
    /\ returned.type # "none" => returned.id \notin DOMAIN requests

\* the first call has timed out while the second is still in flight
TimedOutAndGone ==
    /\ returned.type = "Web3TimeoutError" /\ returned.id = 1
    /\ DOMAIN requests = {2}

(* ------------------- more properties of the Signer --------------------- *)
\* C11: a send_transaction that ends with an error ends with
\* FailedToSendTransactionError (its own cancellation aside)
SendFailsAsFailedToSend ==
    event.type = "ended" /\ event.kind = "send" =>
        event.outcome \in {"ok", "FailedToSendTransactionError", "CancelledError"}

\* C12: no step of the Signer lowers _mined_transaction_count
MinedNeverDecreases ==
    [][mined_transaction_count' >= mined_transaction_count]_vars

\* a nonce has just been allocated from a query that the node answered with a
\* count below the mined count, which stayed
QueriedBelowMined ==
    /\ event.type = "assigned"
    /\ DOMAIN pending_transactions = {}
    /\ node_count < mined_transaction_count
    /\ event.nonce = mined_transaction_count

\* C13: at most one send_transaction is between the start of its nonce allocation
\* and its insertion in the pending set, and it is the holder of the lock
InCritical == {c \in CallIds : calls[c].kind = "send"
                                /\ calls[c].pc \in {"query", "sign", "send"}}

OneSendInCritical ==
    /\ Cardinality(InCritical) <= 1
    /\ \A c \in InCritical : send_transaction_lock.holder = c

\* one call signs while two others queue for the lock
OneSignsTwoQueue ==
    /\ \E c \in InCritical : calls[c].pc = "sign"
    /\ Len(send_transaction_lock.waiters) = 2

(* ------------------- more properties of the transport ------------------ *)
\* call c has written its request in the step just taken
Wrote(c) ==
    /\ sends'[c].pc = "await_fut"
    /\ (c > Len(sends) \/ sends[c].pc # "await_fut")

\* C14: a sender writes its request only after the task the listener holds has
\* signalled that it is ready
WritesAfterReady ==
    [][\A c \in 1..Len(sends') :
          Wrote(c) => /\ listener_task # None
                      /\ is_listening.task = listener_task
                      /\ is_listening.set]_vars

\* C19: send_request returns a result only for a response whose error is null, and
\* raises Web3APIError for every response whose error is not null
ErrorResponsesRaise ==
    /\ returned.type = "result" => returned.response.error = "null"
    /\ returned.type = "Web3APIError" => returned.response.error # "null"

\* the event loop runs a task that is ready: a send_request whose wait was
\* interrupted gets its CancelledError
TimeoutFairSpec ==
    TransportSpec /\ WF_vars(\E c \in SendIds : CancelCleanup(c) /\ UNCHANGED besideTransport)

\* the timeout of call c has fired and the call has not resumed yet
TimedOut(c) ==
    c \in SendIds /\ sends[c].pc = "cancelling" /\ sends[c].why = "timeout"

\* C20: a send_request whose timeout has fired ends with Web3TimeoutError and
\* nothing else at its next step, and it does take that step: again and again no
\* call is left between the timeout and its end
TimeoutEndsWithWeb3TimeoutError ==
    /\ [][\A c \in SendIds :
            TimedOut(c) /\ sends'[c] # sends[c] =>
                returned' = [type |-> "Web3TimeoutError", id |-> sends[c].id,
                             response |-> NoResponse]]_vars
    /\ []<>(\A c \in SendIds : ~TimedOut(c))

\* a call that had written its request has ended with Web3TimeoutError, the request
\* never answered
TimedOutUnanswered ==
    /\ returned.type = "Web3TimeoutError"
    /\ \E k \in 1..Len(conns) : returned.id \in conns[k].inbox

(* ===================== subscriptions (TwoWayTransport) ================= *)
\* The subscriptions live on one connection with its listening task; when the task
\* is gone nothing is read from the connection any more.
SubCallIds == 1..Len(subCalls)

\* what the steps of the subscriptions leave alone, beside the id counter and the
\* outstanding table they share with send_request
besideSubs == <<signerVars, lifeVars, closes, orphans, miscVars, listener_task, is_listening, tasks, reader_writer, conns,
                sends, issued, cancelledOnce, returned>>

\* asyncio.Queue(): nothing in it, no unfinished task, nothing taken from it yet
EmptyQueue == [items |-> <<>>, unfinished |-> 0, got |-> <<>>]

\* the messages of the server: a ResponseMessage and a NotificationMessage, whose
\* payload is the seq-th one the server sends for subscription sub
ResponseOnWire(id, result, error) ==
    [kind |-> "response", id |-> id, result |-> result, error |-> error,
     sub |-> None, seq |-> None]

NotificationOnWire(sub, seq) ==
    [kind |-> "notification", id |-> None, result |-> None, error |-> "null",
     sub |-> sub, seq |-> seq]

NewSubCall(kind, id, sub) ==
    [kind |-> kind, pc |-> "await", id |-> id, sub |-> sub, why |-> "none"]

\* a subscribe or unsubscribe that has ended: nothing of it is kept
EndedSubCall == [NewSubCall("done", None, None) EXCEPT !.pc = "done"]

\* a faulty variant of the put below, which puts the item in front; the order of
\* the payloads is tested against it
QueuePutFront(q, item) ==
    [q EXCEPT !.items = <<item>> \o @, !.unfinished = @ + 1]

\* asyncio.Queue.put_nowait on a queue without a size limit
QueuePut(q, item) ==
    [q EXCEPT !.items = Append(@, item), !.unfinished = @ + 1]

\* a faulty variant of the handler below, which uses the queue of the oldest live
\* subscription; the fanout of the notifications is tested against it
handle_notification_oldest(subs, qs, notification) ==
    IF subs = {} THEN qs
    ELSE LET s == CHOOSE x \in subs : \A y \in subs : x <= y
         IN [qs EXCEPT ![s] = QueuePut(@, [sub |-> notification.sub,
                                           seq |-> notification.seq])]

\* a faulty variant of the handler below, which uses the queue of the Subscription
\* even when its id is no longer in the map; the dropping is tested against it
handle_notification_unmapped(subs, qs, notification) ==
    IF notification.sub \in DOMAIN qs
    THEN [qs EXCEPT ![notification.sub] =
              QueuePut(@, [sub |-> notification.sub, seq |-> notification.seq])]
    ELSE qs

\* TwoWayTransport._handle_notification_message: the queues after the payload is
\* put on the queue of params.subscription (an unknown id is only logged)
handle_notification_message(subs, qs, notification) ==
    IF notification.sub \in subs
    THEN [qs EXCEPT ![notification.sub] =
              QueuePut(@, [sub |-> notification.sub, seq |-> notification.seq])]
    ELSE qs

\* the request of a call is made: the next id, a future in the outstanding table,
\* the request written to the connection
SubRequest(kind, method, sub) ==
    /\ listening
    /\ Len(subCalls) < MaxSubCalls
    /\ rpc_counter' = RpcCounterNext(rpc_counter)
    /\ requests' = TablePut(requests, rpc_counter, PendingFuture)
    /\ server_inbox' = server_inbox \cup {[id |-> rpc_counter, method |-> method,
                                           sub |-> sub]}
    /\ subCalls' = Append(subCalls, NewSubCall(kind, rpc_counter, sub))
    /\ subReturned' = NoSubReturn
    /\ handled' = NoHandled
    /\ UNCHANGED <<subscriptions, queues, listening, wire, server_subs, server_sent,
                   unsubscribed>>

\* TwoWayTransport.subscribe is called: send_request(eth_subscribe, params)
StartSubscribe == SubRequest("subscribe", "eth_subscribe", None)

\* TwoWayTransport.unsubscribe is called with a Subscription that subscribe
\* returned: send_request(eth_unsubscribe, [subscription.id])
StartUnsubscribe(s) ==
    /\ s \in DOMAIN queues
    /\ SubRequest("unsubscribe", "eth_unsubscribe", s)

\* the way out of a call: finally: del self._requests[request.id], then the caller
\* gets what the call returns or raises
EndSub(c, outcome, s, confirmed, live) ==
    /\ subCalls' = [subCalls EXCEPT ![c] = EndedSubCall]
    /\ requests' = TableDel(requests, subCalls[c].id)
    /\ subReturned' = [kind |-> subCalls[c].kind, outcome |-> outcome, sub |-> s,
                       confirmed |-> confirmed, live |-> live]
    /\ handled' = NoHandled

\* send_request returns to subscribe: a queue is made and put in the map under the
\* id the server gave; an error response is raised as Web3APIError
SubscribeResume(c) ==
    /\ subCalls[c].kind = "subscribe" /\ subCalls[c].pc = "await"
    /\ requests[subCalls[c].id].state = "done"
    /\ LET response == requests[subCalls[c].id].response
           s == response.result
       IN IF Truthy(response.error)
          THEN /\ EndSub(c, "Web3APIError", None, FALSE, FALSE)
               /\ UNCHANGED <<subscriptions, queues>>
          ELSE /\ queues' = [x \in (DOMAIN queues) \cup {s} |->
                                IF x = s THEN EmptyQueue ELSE queues[x]]
               /\ subscriptions' = subscriptions \cup {s}
               /\ EndSub(c, "ok", s, TRUE, TRUE)
    /\ UNCHANGED <<rpc_counter, listening, wire, server_inbox, server_subs, server_sent,
                   unsubscribed>>

\* send_request returns to unsubscribe: assert response, the queue is looked up,
\* the mapping is deleted and queue.task_done() is called, which raises ValueError
\* when the queue has no unfinished task
UnsubscribeResume(c) ==
    /\ subCalls[c].kind = "unsubscribe" /\ subCalls[c].pc = "await"
    /\ requests[subCalls[c].id].state = "done"
    /\ LET response == requests[subCalls[c].id].response
           s == subCalls[c].sub
           confirmed == ~Truthy(response.error) /\ response.result = 1
           live == s \in subscriptions
       IN IF ~confirmed \/ ~live
          THEN /\ EndSub(c, IF Truthy(response.error) THEN "Web3APIError"
                            ELSE IF response.result # 1 THEN "AssertionError"
                            ELSE "KeyError", s, confirmed, live)
               /\ UNCHANGED <<subscriptions, queues, unsubscribed>>
          ELSE /\ subscriptions' = subscriptions \ {s}
               /\ unsubscribed' = unsubscribed \cup {s}
               /\ IF queues[s].unfinished = 0
                  THEN /\ EndSub(c, "ValueError", s, confirmed, live)
                       /\ UNCHANGED queues
                  ELSE /\ EndSub(c, "ok", s, confirmed, live)
                       /\ queues' = [queues EXCEPT ![s].unfinished = @ - 1]
    /\ UNCHANGED <<rpc_counter, listening, wire, server_inbox, server_subs, server_sent>>

\* wait_for runs out, or the caller is cancelled, while the call awaits its future:
\* the future is cancelled
SubInterrupt(c, why) ==
    /\ subCalls[c].pc = "await"
    /\ requests[subCalls[c].id].state = "pending"
    /\ subCalls' = [subCalls EXCEPT ![c].pc = "cancelling", ![c].why = why]
    /\ requests' = [requests EXCEPT ![subCalls[c].id] = CancelledFuture]
    /\ subReturned' = NoSubReturn
    /\ handled' = NoHandled
    /\ UNCHANGED <<rpc_counter, subscriptions, queues, listening, wire, server_inbox,
                   server_subs, server_sent, unsubscribed>>

\* the interrupted call resumes inside the listener's body: __aexit__ cancels the
\* listening task, the entry is deleted, a timeout becomes a Web3TimeoutError
SubCancelCleanup(c) ==
    /\ subCalls[c].pc = "cancelling"
    /\ listening' = FALSE
    /\ EndSub(c, IF subCalls[c].why = "timeout" THEN "Web3TimeoutError"
                 ELSE "CancelledError", subCalls[c].sub, FALSE,
              subCalls[c].sub \in subscriptions)
    /\ UNCHANGED <<rpc_counter, subscriptions, queues, wire, server_inbox, server_subs,
                   server_sent, unsubscribed>>

\* the server answers a request: eth_subscribe with a new subscription id,
\* eth_unsubscribe with true or false, either of them with an error
ServerHandle(req, outcome) ==
    /\ listening
    /\ req \in server_inbox
    /\ server_inbox' = server_inbox \ {req}
    /\ \/ /\ outcome = "ok" /\ req.method = "eth_subscribe"
          /\ server_subs' = server_subs + 1
          /\ wire' = Append(wire, ResponseOnWire(req.id, server_subs + 1, "null"))
       \/ /\ outcome = "ok" /\ req.method = "eth_unsubscribe"
          /\ wire' = Append(wire, ResponseOnWire(req.id, 1, "null"))
          /\ UNCHANGED server_subs
       \/ /\ outcome = "refuse" /\ req.method = "eth_unsubscribe"
          /\ wire' = Append(wire, ResponseOnWire(req.id, 0, "null"))
          /\ UNCHANGED server_subs
       \/ /\ outcome = "error"
          /\ wire' = Append(wire, ResponseOnWire(req.id, None, "object"))
          /\ UNCHANGED server_subs
    /\ handled' = NoHandled
    /\ UNCHANGED <<rpc_counter, requests, subscriptions, queues, subCalls, listening,
                   server_sent, unsubscribed, subReturned>>

\* the number of notifications the server has sent for the subscriptions 1..n
RECURSIVE SentInAll(_, _)
SentInAll(sent, n) == IF n = 0 THEN 0 ELSE sent[n] + SentInAll(sent, n - 1)

\* the server sends the next notification of a subscription it has made, whether
\* or not the client still holds it
ServerNotify(s) ==
    /\ listening
    /\ s \in 1..server_subs
    /\ SentInAll(server_sent, MaxSubCalls) < MaxNotes
    /\ server_sent' = [server_sent EXCEPT ![s] = @ + 1]
    /\ wire' = Append(wire, NotificationOnWire(s, server_sent[s] + 1))
    /\ handled' = NoHandled
    /\ UNCHANGED <<rpc_counter, requests, subscriptions, queues, subCalls, listening,
                   server_inbox, server_subs, unsubscribed, subReturned>>

\* one turn of the loop of TwoWayTransport.listen: the next message is received,
\* parsed and handed to the handler of its type; an exception of the handler ends
\* the listening task
ListenerReadWire ==
    /\ listening
    /\ wire # <<>>
    /\ wire' = Tail(wire)
    /\ handled' = [kind |-> Head(wire).kind, sub |-> Head(wire).sub,
                    late |-> Head(wire).sub \in unsubscribed]
    /\ LET msg == Head(wire)
       IN IF msg.kind = "response"
          THEN LET response == [id |-> msg.id, result |-> msg.result,
                                error |-> msg.error]
               IN /\ requests' = handle_response_message(requests, response)
                  /\ listening' = ~handle_response_raises(requests, response)
                  /\ UNCHANGED queues
          ELSE /\ queues' = handle_notification_message(subscriptions, queues, msg)
               /\ UNCHANGED <<requests, listening>>
    /\ UNCHANGED <<rpc_counter, subscriptions, subCalls, server_inbox, server_subs,
                   server_sent, unsubscribed, subReturned>>

\* Subscription.__anext__: await self.queue.get() returns the item at the front
Consume(s) ==
    /\ s \in DOMAIN queues
    /\ queues[s].items # <<>>
    /\ queues' = [queues EXCEPT ![s].items = Tail(@),
                                ![s].got = Append(@, Head(queues[s].items))]
    /\ handled' = NoHandled
    /\ UNCHANGED <<rpc_counter, requests, subscriptions, subCalls, listening, wire,
                   server_inbox, server_subs, server_sent, unsubscribed, subReturned>>

SubscriptionNext ==
    \/ StartSubscribe /\ UNCHANGED besideSubs
    \/ \E s \in 1..MaxSubCalls : StartUnsubscribe(s) /\ UNCHANGED besideSubs
    \/ \E c \in SubCallIds : SubscribeResume(c) /\ UNCHANGED besideSubs
    \/ \E c \in SubCallIds : UnsubscribeResume(c) /\ UNCHANGED besideSubs
    \/ \E c \in SubCallIds, why \in {"timeout", "cancel"} :
           SubInterrupt(c, why) /\ UNCHANGED besideSubs
    \/ \E c \in SubCallIds : SubCancelCleanup(c) /\ UNCHANGED besideSubs
    \/ \E req \in server_inbox, outcome \in {"ok", "refuse", "error"} :
           ServerHandle(req, outcome) /\ UNCHANGED besideSubs
    \/ \E s \in 1..MaxSubCalls : ServerNotify(s) /\ UNCHANGED besideSubs
    \/ ListenerReadWire /\ UNCHANGED besideSubs
    \/ \E s \in 1..MaxSubCalls : Consume(s) /\ UNCHANGED besideSubs

SubscriptionSpec == Init /\ [][SubscriptionNext]_vars

(* --------------------- properties of subscriptions --------------------- *)
\* every payload a queue holds or has yielded, for subscription s
Delivered(s) == queues[s].got \o queues[s].items

\* C15: a notification's payload is put only on the queue of the subscription
\* whose id is the notification's params.subscription: whatever a subscription's
\* queue holds or has yielded was sent for that subscription
FanoutByParamsSubscription ==
    \A s \in DOMAIN queues :
        \A i \in 1..Len(Delivered(s)) : Delivered(s)[i].sub = s

\* two subscriptions are live and the queue of the younger one got a payload
YoungerQueueGotPayload ==
    /\ handled.kind = "notification" /\ handled.sub = 2
    /\ {1, 2} \subseteq subscriptions
    /\ Len(queues[2].items) > 0 /\ queues[1].items = <<>>

\* C16: iterating a Subscription yields the payloads in the order the server sent
\* them, none twice and none out of order: what it has yielded and still holds
\* is strictly increasing in the server's numbering
YieldsInServerOrder ==
    \A s \in DOMAIN queues :
        \A i, j \in 1..Len(Delivered(s)) :
            i < j => Delivered(s)[i].seq < Delivered(s)[j].seq

\* a Subscription has yielded two payloads
YieldedTwo == \E s \in DOMAIN queues : Len(queues[s].got) = 2

\* C17: unsubscribe on a live subscription, confirmed by the node, completes
\* without error and removes the id from the map, whether or not a notification
\* was ever put on its queue
ConfirmedUnsubscribeSucceeds ==
    subReturned.kind = "unsubscribe" /\ subReturned.confirmed /\ subReturned.live =>
        subReturned.outcome = "ok" /\ subReturned.sub \notin subscriptions

\* C18: a notification that names a subscription whose unsubscribe has completed
\* is dropped: reading it changes no queue and leaves the listener listening
LateNotificationDropped ==
    [][handled'.kind = "notification" /\ handled'.late =>
           queues' = queues /\ listening /\ listening']_vars

\* the listener has just read a notification for a subscription that was
\* unsubscribed without error, and goes on listening
LateNotificationRead ==
    /\ handled.kind = "notification" /\ handled.late
    /\ queues[handled.sub].unfinished < Len(Delivered(handled.sub))
    /\ listening

(* ------------------ properties of the connection holders --------------- *)
\* the Event call c waits on can still be set: it is the listener's current Event
\* and a listening task is alive to call is_ready()
ReadinessCanCome(c) ==
    /\ is_listening.task = sends[c].ev
    /\ \/ is_listening.set
       \/ \E g \in TaskIds : tasks[g].pc # "done"

\* C21: when the listening task a send_request has started fails before it is
\* ready (the connection cannot be opened), the send_request fails with the
\* connection error: it is never left waiting for a readiness signal that cannot
\* come
NeverWaitsOnDeadListener ==
    \A c \in SendIds : sends[c].pc = "ready_wait" => ReadinessCanCome(c)

(* ------------------------ the life of a transaction -------------------- *)
\* the exceptions of wait_for_transaction that say what became of a transaction
WaitVerdicts == {"FailedToGetReceiptError", "WaitForTransactionTimeoutError"}

\* history: the step just taken is one of a wait_for_transaction for t; if the
\* call ended with a verdict about t, the verdict is kept
Observe(t) ==
    tx_outcome' = [tx_outcome EXCEPT ![t] =
                      IF event'.type = "ended" /\ event'.kind = "wait"
                         /\ event'.outcome \in WaitVerdicts
                      THEN event'.outcome ELSE @]

\* the state of transaction t, from the fields of the Transaction (signed_tx,
\* tx_hash, receipt) and from what wait_for_transaction has raised about it
TxState(t) ==
    IF tx_receipt[t] THEN "MINED"
    ELSE IF tx_outcome[t] = "FailedToGetReceiptError" THEN "DROPPED"
    ELSE IF tx_outcome[t] = "WaitForTransactionTimeoutError" THEN "TIMED_OUT"
    ELSE IF tx_hash[t] # None THEN "SUBMITTED"
    ELSE IF tx_signed[t] # None THEN "SIGNED"
    ELSE "UNSIGNED"

\* what the steps of the Signer leave alone, beside the history of the transactions
besideLife == <<transportVars, subVars, order, closes, orphans, miscVars>>

\* the calls of the Signer, with the verdicts of wait_for_transaction recorded
LifecycleNext ==
    \/ \E t \in Txs : StartSend(t) /\ UNCHANGED <<tx_outcome, besideLife>>
    \/ \E c \in CallIds : LockAcquired(c) /\ UNCHANGED <<tx_outcome, besideLife>>
    \/ \E c \in CallIds, r \in RpcOutcomes :
           AllocQueryDone(c, r) /\ UNCHANGED <<tx_outcome, besideLife>>
    \/ \E c \in CallIds, r \in RpcOutcomes :
           SignDone(c, r) /\ UNCHANGED <<tx_outcome, besideLife>>
    \/ \E c \in CallIds, r \in RpcOutcomes :
           SendDone(c, r) /\ UNCHANGED <<tx_outcome, besideLife>>
    \/ \E t \in Txs, d \in Deadlines :
           StartWait(t, d) /\ Observe(t) /\ UNCHANGED besideLife
    \/ \E c \in CallIds, r \in RpcOutcomes :
           WaitCountDone(c, r) /\ Observe(calls[c].tx) /\ UNCHANGED besideLife
    \/ \E c \in CallIds, r \in RpcOutcomes :
           WaitReceiptDone(c, r) /\ Observe(calls[c].tx) /\ UNCHANGED besideLife
    \/ \E c \in CallIds : WaitPollSleepDone(c) /\ UNCHANGED <<tx_outcome, besideLife>>
    \/ \E n \in Counts : NodeSetCount(n) /\ UNCHANGED <<tx_outcome, besideLife>>
    \/ \E h \in CallIds : NodeMine(h) /\ UNCHANGED <<tx_outcome, besideLife>>
    \/ \E c \in CallIds : DeadlinePasses(c) /\ UNCHANGED <<tx_outcome, besideLife>>

LifecycleSpec == Init /\ [][LifecycleNext]_vars

\* the moves of the state machine of a transaction
LifecycleMoves ==
    {<<"UNSIGNED", "SIGNED">>, <<"SIGNED", "SUBMITTED">>, <<"SUBMITTED", "MINED">>,
     <<"SUBMITTED", "DROPPED">>, <<"SUBMITTED", "TIMED_OUT">>}

\* C22: a transaction goes UNSIGNED, SIGNED, SUBMITTED and then MINED, DROPPED or
\* TIMED_OUT: every step leaves its state alone or makes one of these moves, so
\* that nothing is submitted unsigned, no receipt comes before the hash, and a
\* transaction that is MINED, DROPPED or TIMED_OUT stays so
FollowsLifecycle ==
    [][\A t \in Txs : \/ TxState(t)' = TxState(t)
                      \/ <<TxState(t), TxState(t)'>> \in LifecycleMoves]_vars

(* -------------------- Signer.send_in_order_and_wait -------------------- *)
\* the list txs given to send_in_order_and_wait, and the transaction another task
\* sends through the same Signer meanwhile
InOrderTxs == 1..(NumTxs - 1)

OtherTx == NumTxs

\* what the steps of send_in_order_and_wait leave alone, beside its own position
besideOrder == <<transportVars, subVars, tx_outcome, closes, orphans, miscVars>>

\* between the return of one send_transaction and the first await of the next
\* the call does not give up control: no other task runs
Yielded == order.pc = "loop" => order.i = 1

\* for tx in txs: await self.send_transaction(tx), up to its first await
InOrderSend ==
    /\ order.pc = "loop" /\ order.i \in InOrderTxs
    /\ BeginSend(order.i)
    /\ order' = [order EXCEPT !.pc = "sending", !.call = Len(calls) + 1]

\* the step just taken was one of send_transaction call c: when it is the call the
\* loop awaits and it has returned, the task of wait_for_transaction is created
\* and the loop goes on; when it has raised, send_in_order_and_wait raises
OrderFollows(c) ==
    order' = IF c # order.call \/ event'.type # "ended" THEN order
             ELSE IF event'.outcome # "ok" THEN [order EXCEPT !.pc = "raised", !.call = None]
             ELSE [pc |-> IF order.i + 1 \in InOrderTxs THEN "loop" ELSE "gather",
                   i |-> order.i + 1, call |-> None,
                   created |-> order.created \cup {order.i}]

\* another task calls send_transaction on the same Signer
OtherSend ==
    /\ Yielded
    /\ OtherTx \in FreeTxs
    /\ BeginSend(OtherTx)
    /\ UNCHANGED order

\* a task created by the loop runs for the first time: wait_for_transaction(tx,
\* deadline=time.time() + timeout)
InOrderWait(t) ==
    /\ Yielded
    /\ t \in order.created
    /\ StartWait(t, "future")
    /\ order' = [order EXCEPT !.created = @ \ {t}]

InOrderNext ==
    \/ InOrderSend /\ UNCHANGED besideOrder
    \/ OtherSend /\ UNCHANGED besideOrder
    \/ \E c \in CallIds :
           Yielded /\ LockAcquired(c) /\ OrderFollows(c) /\ UNCHANGED besideOrder
    \/ \E c \in CallIds, r \in RpcOutcomes :
           Yielded /\ AllocQueryDone(c, r) /\ OrderFollows(c) /\ UNCHANGED besideOrder
    \/ \E c \in CallIds, r \in RpcOutcomes :
           Yielded /\ SignDone(c, r) /\ OrderFollows(c) /\ UNCHANGED besideOrder
    \/ \E c \in CallIds, r \in RpcOutcomes :
           Yielded /\ SendDone(c, r) /\ OrderFollows(c) /\ UNCHANGED besideOrder
    \/ \E t \in InOrderTxs : InOrderWait(t) /\ UNCHANGED besideOrder
    \/ \E c \in CallIds, r \in RpcOutcomes :
           Yielded /\ WaitCountDone(c, r) /\ UNCHANGED <<order, besideOrder>>
    \/ \E c \in CallIds, r \in RpcOutcomes :
           Yielded /\ WaitReceiptDone(c, r) /\ UNCHANGED <<order, besideOrder>>
    \/ \E c \in CallIds :
           Yielded /\ WaitPollSleepDone(c) /\ UNCHANGED <<order, besideOrder>>
    \/ \E c \in CallIds : DeadlinePasses(c) /\ UNCHANGED <<order, besideOrder>>
    \/ \E n \in Counts : NodeSetCount(n) /\ UNCHANGED <<order, besideOrder>>
    \/ \E h \in CallIds : NodeMine(h) /\ UNCHANGED <<order, besideOrder>>

InOrderSpec == Init /\ [][InOrderNext]_vars

\* C23: send_in_order_and_wait assigns the nonces in the order of the list: of two
\* transactions of the list that are both submitted, the earlier one has the
\* smaller nonce, whatever became of the waits of the earlier transactions
NoncesInListOrder ==
    \A i, j \in InOrderTxs :
        i < j /\ tx_hash[i] # None /\ tx_hash[j] # None => tx_nonce[i] < tx_nonce[j]

(* -------------------------- IPCTransport.close ------------------------- *)
\* what the steps of the transport leave alone, beside the count of the closes
besideClose == <<signerVars, subVars, lifeVars, orphans, miscVars>>

\* the number of close() calls a run follows in a row
MaxCloses == 2

\* a faulty variant of the close below, which keeps the connection it has closed;
\* the release of the connection is tested against it
SocketCloseKeeping(rw) == rw

\* PersistentSocket.close: self.reader_writer after the call
SocketClose(rw) == None

\* IPCTransport.close: PersistentListener.close() cancels and forgets the task,
\* PersistentSocket.close() closes the writer and forgets the connection
Close ==
    /\ tasks' = CancelTask(tasks, listener_task)
    /\ listener_task' = None
    /\ conns' = CloseConn(conns, reader_writer)
    /\ reader_writer' = SocketClose(reader_writer)
    /\ closes' = IF closes < MaxCloses THEN closes + 1 ELSE closes
    /\ returned' = NoReturn
    /\ UNCHANGED <<rpc_counter, requests, is_listening, sends, issued, cancelledOnce>>

\* the transport with close() called at any moment, any number of times
CloseNext ==
    \/ Close /\ UNCHANGED besideClose
    \/ StartRequest /\ closes' = 0 /\ UNCHANGED besideClose
    \/ \E c \in SendIds : ReadyResume(c) /\ closes' = 0 /\ UNCHANGED besideClose
    \/ \E c \in SendIds, ok \in BOOLEAN :
           SenderConnectDone(c, ok) /\ closes' = 0 /\ UNCHANGED besideClose
    \/ \E c \in SendIds : Resume(c) /\ closes' = 0 /\ UNCHANGED besideClose
    \/ \E c \in SendIds : Interrupt(c, "timeout") /\ closes' = 0 /\ UNCHANGED besideClose
    \/ \E c \in SendIds : CancelCleanup(c) /\ closes' = 0 /\ UNCHANGED besideClose
    \/ \E g \in TaskIds : ListenerRun(g) /\ closes' = 0 /\ UNCHANGED besideClose
    \/ \E g \in TaskIds, ok \in BOOLEAN :
           ListenerConnectDone(g, ok) /\ closes' = 0 /\ UNCHANGED besideClose
    \/ \E g \in TaskIds, i \in 1..MaxRequests :
           ListenerRead(g, i, "null") /\ closes' = 0 /\ UNCHANGED besideClose
    \/ \E g \in TaskIds : ListenerReadFail(g) /\ closes' = 0 /\ UNCHANGED besideClose
    \/ \E g \in TaskIds : ListenerCancelled(g) /\ closes' = 0 /\ UNCHANGED besideClose

CloseSpec == Init /\ [][CloseNext]_vars

\* what close() acts on: the state of the transport without its history
TransportState ==
    <<rpc_counter, requests, listener_task, is_listening, tasks, reader_writer, conns,
      sends>>

\* C24: close() can be called any number of times, before or after use: a call
\* leaves the transport without listener task and without connection, the task
\* it found cancelled and the connection it found closed, and a call that follows
\* another call changes nothing
CloseReleasesOnce ==
    [][closes' >= 1 =>
          /\ listener_task' = None /\ reader_writer' = None
          /\ listener_task # None =>
                 tasks'[listener_task].pc = "done" \/ tasks'[listener_task].cancel
          /\ reader_writer # None => ~conns'[reader_writer].open
          /\ closes >= 1 => TransportState' = TransportState]_vars

\* close() was called twice in a row on a transport that had served a request
\* over a connection with a listener task
ClosedTwiceAfterUse ==
    /\ closes = 2
    /\ Len(conns) >= 1 /\ Len(tasks) >= 1
    /\ \E c \in SendIds : sends[c] = EndedSend

\* C29: the socket has at most one open connection at a time and every use gets
\* that connection: a connection that is open is the one the socket holds, and a
\* listening task reads from the connection the senders write to
OneConnectionShared ==
    /\ \A k \in 1..Len(conns) : conns[k].open => k = reader_writer
    /\ \A g \in TaskIds :
           tasks[g].pc = "reading" /\ ~tasks[g].cancel => tasks[g].conn = reader_writer

\* the listening task g is reading from the connection (cancel() ends the read a
\* task is waiting in, the task itself ends when it runs next)
Reading(g) == tasks[g].pc = "reading" /\ ~tasks[g].cancel

\* C30: at every moment at most one listening task is reading from the
\* connection, and a response is taken from a connection only by a listening task
\* that reads from it, never by a sender
OneListenerReads ==
    [][/\ Cardinality({g \in TaskIds : Reading(g)}') <= 1
       /\ \A i \in DOMAIN requests :
              requests[i].state = "pending" /\ i \in DOMAIN requests'
              /\ requests'[i].state = "done" =>
                  \E g \in TaskIds :
                      /\ Reading(g) /\ i \in conns[tasks[g].conn].inbox
                      /\ i \notin conns'[tasks[g].conn].inbox]_vars

\* a second listening task reads from the connection after the first one has
\* ended and a request has ended
SecondListenerReads ==
    /\ Len(tasks) >= 2
    /\ tasks[1].pc = "done" /\ Reading(2)
    /\ \E c \in SendIds : sends[c] = EndedSend

(* ============================ HTTPTransport ============================ *)
\* what the steps of the HTTP transport leave alone
besideHttp == <<signerVars, transportVars, subVars, lifeVars, closes, orphans, events, quantity,
                signing, mixin>>

HttpCallIds == 1..Len(http.calls)

\* a send_request on the HTTP transport that has ended: nothing of it is kept
EndedHttpCall == [pc |-> "done", id |-> None]

\* PersistentHTTPSession.close, and __aexit__ with an exception: the session is
\* closed and forgotten
SessionClose(h) == [h EXCEPT !.session = None]

\* send_request on the HTTP transport: the id is taken, the session is entered
\* (created if there is none) and the request is posted
HttpStartRequest ==
    /\ Len(http.calls) < MaxRequests
    /\ http' = [http EXCEPT
                   !.rpc_counter = RpcCounterNext(@),
                   !.session = IF @ = None THEN http.opened + 1 ELSE @,
                   !.opened = IF http.session = None THEN @ + 1 ELSE @,
                   !.calls = Append(@, [pc |-> "post", id |-> http.rpc_counter]),
                   !.posted = @ \cup {http.rpc_counter},
                   !.last = NoHttpReturn]

\* the post of call c ends: with a response, which is parsed and returned or
\* raised as Web3APIError; or with an exception or the timeout of wait_for, which
\* leave the session through __aexit__ with an exception
HttpPostDone(c, r) ==
    /\ http.calls[c].pc = "post"
    /\ LET h == [http EXCEPT !.calls[c] = EndedHttpCall,
                             !.last = [op |-> "send_request", outcome |-> r,
                                       id |-> http.calls[c].id]]
       IN http' = IF r \in {"result", "Web3APIError"} THEN h ELSE SessionClose(h)

\* HTTPTransport.close
HttpClose ==
    /\ http.session # None
    /\ http' = [SessionClose(http) EXCEPT !.last = NoHttpReturn]

\* a faulty variant of the method below, which sends eth_subscribe as a two-way
\* transport does; the refusal of subscriptions is tested against it
SubscribeSending(h, op) ==
    [h EXCEPT !.rpc_counter = RpcCounterNext(@),
              !.posted = @ \cup {h.rpc_counter},
              !.last = [op |-> op, outcome |-> "NotImplementedError", id |-> None]]

\* BaseTransport.subscribe and BaseTransport.unsubscribe, which HTTPTransport does
\* not override: raise NotImplementedError
BaseSubscribe(h, op) ==
    [h EXCEPT !.last = [op |-> op, outcome |-> "NotImplementedError", id |-> None]]

\* subscribe or unsubscribe is called on the HTTP transport
HttpSubscription(op) ==
    http' = BaseSubscribe(http, op)

HttpNext ==
    \/ HttpStartRequest /\ UNCHANGED besideHttp
    \/ \E c \in HttpCallIds,
          r \in {"result", "Web3APIError", "OtherError", "Web3TimeoutError"} :
           HttpPostDone(c, r) /\ UNCHANGED besideHttp
    \/ HttpClose /\ UNCHANGED besideHttp
    \/ \E op \in {"subscribe", "unsubscribe"} : HttpSubscription(op) /\ UNCHANGED besideHttp

HttpSpec == Init /\ [][HttpNext]_vars

\* C25: subscribe and unsubscribe on the HTTP transport always fail with
\* NotImplementedError, post nothing to the node and leave the transport as it
\* was
HttpSubscriptionsUnsupported ==
    [][http'.last.op \in {"subscribe", "unsubscribe"} =>
          /\ http'.last.outcome = "NotImplementedError"
          /\ http'.posted = http.posted
          /\ [http' EXCEPT !.last = http.last] = http]_vars

\* subscribe was refused on a transport that has a session and a request posted
SubscribeRefusedInUse ==
    /\ http.last.op = "subscribe" /\ http.last.outcome = "NotImplementedError"
    /\ http.session # None
    /\ \E c \in HttpCallIds : http.calls[c].pc = "post"

(* ============================= EventParser ============================= *)
\* the number of logs given to parse_logs, and of EventSpecs given to a parser
MaxLogs == 2

MaxSpecs == 2

SeqsUpTo(S, n) == UNION {[1..k -> S] : k \in 0..n}

\* signature hashes: two that EventSpecs are made for, one that belongs to none
SignatureHashes == {1, 2}

UnknownHash == 3

\* the EventSpecs a parser is made from: two of them have the same signature and
\* differ in the fields that are indexed (as Transfer of ERC20 and of ERC721)
SpecChoices ==
    {[signature_hash |-> 1, num_indexed_fields |-> 2],
     [signature_hash |-> 1, num_indexed_fields |-> 3],
     [signature_hash |-> 2, num_indexed_fields |-> 0]}

\* the logs: no topics at all, or a first topic, a number of topics, and whether
\* eth_abi can decode the topics and the data with the types of a spec
LogChoices ==
    {[topic0 |-> None, ntopics |-> 0, decodes |-> TRUE]} \cup
    [topic0 : SignatureHashes \cup {UnknownHash}, ntopics : {1, 3, 4}, decodes : BOOLEAN]

\* what the steps of the parser leave alone
besideEvents == <<signerVars, transportVars, subVars, lifeVars, closes, orphans, http, quantity,
                  signing, mixin>>

\* EventParser.__init__: {event_spec.get_event_topic(): event_spec for ...}; of
\* two specs with the same topic the dict keeps the later one
SpecsDict(event_specs) ==
    [h \in {event_specs[i].signature_hash : i \in 1..Len(event_specs)} |->
        LET last == CHOOSE i \in 1..Len(event_specs) :
                        /\ event_specs[i].signature_hash = h
                        /\ \A j \in 1..Len(event_specs) :
                               event_specs[j].signature_hash = h => j <= i
        IN event_specs[last]]

\* the test parse_logs makes on a log that has topics
Accepts(dict, log) ==
    /\ log.topic0 \in DOMAIN dict
    /\ 1 + dict[log.topic0].num_indexed_fields = log.ntopics

\* one turn of the loop of parse_logs on record e: a log without topics is
\* skipped, so is a log the dict has no fitting spec for; a log that is accepted
\* is parsed by EventSpec.parse_log, which raises ValueError when the decoding
\* fails, and yielded
ParseLogsStep(e) ==
    LET log == e.logs[e.pos]
        dict == SpecsDict(e.event_specs)
    IN IF log.ntopics = 0 \/ ~Accepts(dict, log)
       THEN [e EXCEPT !.pos = @ + 1]
       ELSE IF ~log.decodes
       THEN [e EXCEPT !.raised = TRUE]
       ELSE [e EXCEPT !.pos = @ + 1,
                      !.yielded = Append(@, [log |-> e.pos, spec |-> dict[log.topic0]])]

\* the consumer of the generator asks for the next event
ParseLogsNext ==
    /\ ~events.raised
    /\ events.pos <= Len(events.logs)
    /\ events' = ParseLogsStep(events)

EventsInit ==
    /\ InitObjects
    /\ quantity = NewQuantity(0)
    /\ signing = NoSigning
    /\ events \in {NewParse(event_specs, logs) :
                      event_specs \in SeqsUpTo(SpecChoices, MaxSpecs),
                      logs \in SeqsUpTo(LogChoices, MaxLogs)}

EventsNext == ParseLogsNext /\ UNCHANGED besideEvents

EventsSpec == EventsInit /\ [][EventsNext]_vars

\* the log at position p has the signature hash of one of the given specs as its
\* first topic, and as many topics as that spec has indexed fields, plus one
Matches(e, p) ==
    \E i \in 1..Len(e.event_specs) :
        /\ e.logs[p].topic0 = e.event_specs[i].signature_hash
        /\ e.logs[p].ntopics = 1 + e.event_specs[i].num_indexed_fields

\* the positions of the logs parse_logs has gone through that match
MatchingUpTo(e) ==
    SelectSeq([p \in 1..(e.pos - 1) |-> p], LAMBDA p : Matches(e, p))

\* C26: parse_logs yields, in the order of the logs, exactly one ParsedEvent for
\* each log whose first topic is the signature hash of a registered EventSpec
\* with one topic more than that spec has indexed fields, and nothing for the
\* other logs, and it raises no error
YieldsEveryMatchingLog ==
    /\ ~events.raised
    /\ [p \in 1..Len(events.yielded) |-> events.yielded[p].log] = MatchingUpTo(events)

(* ============================ hex quantities =========================== *)
\* the largest value of an integer field that is followed (Python integers have no
\* width: hex() and int(v, 16) handle the digits one by one, however many)
MaxQuantity == 4200

\* what the steps of the quantities leave alone
besideQuantity == <<signerVars, transportVars, subVars, lifeVars, closes, orphans, http, events,
                    signing, mixin>>

HexChars == <<"0", "1", "2", "3", "4", "5", "6", "7", "8", "9",
              "a", "b", "c", "d", "e", "f">>

\* a faulty variant of the digits below, which suppresses every zero and not only
\* the leading ones; the round trip is tested against it
RECURSIVE HexDigitsNoZeros(_)
HexDigitsNoZeros(n) ==
    IF n < 16 THEN <<HexChars[n + 1]>>
    ELSE HexDigitsNoZeros(n \div 16) \o
         (IF n % 16 = 0 THEN <<>> ELSE <<HexChars[(n % 16) + 1]>>)

\* the digits of hex(n): base 16, the most significant first, no leading zero
RECURSIVE HexDigits(_)
HexDigits(n) ==
    IF n < 16 THEN <<HexChars[n + 1]>>
    ELSE HexDigits(n \div 16) \o <<HexChars[(n % 16) + 1]>>

\* hex(v), as _format_params and _format_block_parameter apply it to an integer
Hex(v) == <<"0", "x">> \o HexDigits(v)

DigitValue(ch) == (CHOOSE i \in 1..16 : HexChars[i] = ch) - 1

RECURSIVE FoldHex(_, _)
FoldHex(chars, acc) ==
    IF chars = <<>> THEN acc
    ELSE FoldHex(Tail(chars), acc * 16 + DigitValue(Head(chars)))

\* int(s, 16): the prefix 0x is skipped, the digits are folded
IntBase16(s) ==
    IF Len(s) >= 2 /\ s[1] = "0" /\ s[2] = "x"
    THEN FoldHex(SubSeq(s, 3, Len(s)), 0)
    ELSE FoldHex(s, 0)

\* the validator quantity_to_int of the typed models, on a field that is a
\* string (is_str) with characters s, or that is the integer n already
quantity_to_int(is_str, s, n) == IF is_str THEN IntBase16(s) ELSE n

\* the facade puts the integer on the wire
QuantityFormat ==
    /\ quantity.pc = "int"
    /\ quantity' = [quantity EXCEPT !.pc = "wire", !.wire = Hex(quantity.v)]

\* a typed model is made from the wire form
QuantityParse ==
    /\ quantity.pc = "wire"
    /\ quantity' = [quantity EXCEPT
                       !.pc = "parsed",
                       !.parsed = quantity_to_int(TRUE, quantity.wire, None)]

\* a typed model is made from a field that is an integer already
QuantityKeep ==
    /\ quantity.pc = "int"
    /\ quantity' = [quantity EXCEPT
                       !.pc = "kept",
                       !.parsed = quantity_to_int(FALSE, <<>>, quantity.v)]

QuantityInit ==
    /\ InitObjects
    /\ events = NoParse
    /\ signing = NoSigning
    /\ quantity \in {NewQuantity(v) : v \in 0..MaxQuantity}

QuantityNext ==
    \/ QuantityFormat /\ UNCHANGED besideQuantity
    \/ QuantityParse /\ UNCHANGED besideQuantity
    \/ QuantityKeep /\ UNCHANGED besideQuantity

QuantitySpec == QuantityInit /\ [][QuantityNext]_vars

\* C27: the wire form of an integer is 0x and its hex digits without a leading
\* zero, the quantity parsing of the typed models gives back exactly the integer,
\* and a field that is an integer already is left as it is
QuantityRoundTrips ==
    /\ quantity.pc \in {"wire", "parsed"} =>
           /\ SubSeq(quantity.wire, 1, 2) = <<"0", "x">>
           /\ Len(quantity.wire) >= 3
           /\ Len(quantity.wire) > 3 => quantity.wire[3] # "0"
    /\ quantity.pc \in {"parsed", "kept"} => quantity.parsed = quantity.v

\* 4096 went over the wire as 0x1000 and came back
RoundTripWithInnerZeros ==
    /\ quantity.pc = "parsed" /\ quantity.v = 4096
    /\ quantity.wire = <<"0", "x", "1", "0", "0", "0">>
    /\ quantity.parsed = 4096

(* -------------------------- nonce allocation --------------------------- *)
\* in the step taken, send_transaction call c called _allocate_next_nonce: it got
\* the lock (at once or after waiting for it) and ran up to its first await
AllocationCalled(c) ==
    /\ calls'[c].kind = "send"
    /\ calls'[c].pc \in {"sign", "query"}
    /\ c \in CallIds => calls[c].pc = "lock"

\* in the step taken, the query of _allocate_next_nonce of call c was answered
\* and the allocation returned
AllocationAnswered(c) ==
    /\ c \in CallIds
    /\ calls[c].kind = "send" /\ calls[c].pc = "query"
    /\ calls'[c].pc = "sign"

\* C28: called with pending transactions, _allocate_next_nonce returns the larger
\* of the mined count and the largest pending nonce plus one, without a query to
\* the node; called with none, it queries the node's count, and returns the mined
\* count as that answer refreshed it
AllocatesNextNonce ==
    [][\A c \in 1..Len(calls') :
          /\ AllocationCalled(c) =>
                 IF DOMAIN pending_transactions # {}
                 THEN /\ calls'[c].pc = "sign"
                      /\ calls'[c].nonce =
                             Max2(mined_transaction_count,
                                  MaxOf(DOMAIN pending_transactions) + 1)
                      /\ mined_transaction_count' = mined_transaction_count
                 ELSE /\ calls'[c].pc = "query"
                      /\ calls'[c].nonce = None
          /\ AllocationAnswered(c) =>
                 /\ mined_transaction_count' =
                        Max2(mined_transaction_count, node_count)
                 /\ calls'[c].nonce = mined_transaction_count']_vars

\* a call was given the mined count although a smaller nonce is pending, and
\* another call was given the count the node answered
AllocatedBothWays ==
    /\ DOMAIN pending_transactions # {}
    /\ \E c \in CallIds :
           /\ calls[c].kind = "send" /\ calls[c].pc = "sign"
           /\ calls[c].nonce = mined_transaction_count
           /\ calls[c].nonce > MaxOf(DOMAIN pending_transactions) + 1
    /\ submitted # <<>>

(* ------------------ the listener ends while requests wait -------------- *)
\* what the steps of the transport leave alone, beside the ids in flight at a
\* failed read
besideFailure == <<signerVars, subVars, lifeVars, closes, miscVars>>

\* the ids of the calls that wait for their response
Awaited == {sends[c].id : c \in {d \in SendIds : sends[d].pc = "await_fut"}}

\* history: the ids followed since a failed read, without those whose call ended
\* in the step taken
StillInFlight == {i \in orphans : \E c \in 1..Len(sends') : sends'[c].id = i}

\* reader.readuntil() of task g returns, in place of the response to request i, a
\* frame that is no JSON or fits no message model: _parse_message raises
\* Web3APIError inside listen(), outside the socket's block, and the task ends
ListenerReadMalformed(g, i) ==
    /\ tasks[g].pc = "reading" /\ ~tasks[g].cancel
    /\ conns[tasks[g].conn].open
    /\ i \in conns[tasks[g].conn].inbox
    /\ conns' = [conns EXCEPT ![tasks[g].conn].inbox = @ \ {i}]
    /\ tasks' = [tasks EXCEPT ![g] = DoneTask]
    /\ returned' = NoReturn
    /\ UNCHANGED <<rpc_counter, requests, listener_task, is_listening, reader_writer,
                   sends, issued, cancelledOnce>>

\* the transport whose reads may fail and whose frames may be malformed, the
\* calls ending by a response or by their timeout
FailureNext ==
    \/ StartRequest /\ orphans' = StillInFlight /\ UNCHANGED besideFailure
    \/ \E c \in SendIds : ReadyResume(c) /\ orphans' = StillInFlight
                          /\ UNCHANGED besideFailure
    \/ \E c \in SendIds, ok \in BOOLEAN :
           SenderConnectDone(c, ok) /\ orphans' = StillInFlight /\ UNCHANGED besideFailure
    \/ \E c \in SendIds : Resume(c) /\ orphans' = StillInFlight /\ UNCHANGED besideFailure
    \/ \E c \in SendIds : Interrupt(c, "timeout") /\ orphans' = StillInFlight
                          /\ UNCHANGED besideFailure
    \/ \E c \in SendIds : CancelCleanup(c) /\ orphans' = StillInFlight
                          /\ UNCHANGED besideFailure
    \/ \E g \in TaskIds : ListenerRun(g) /\ orphans' = StillInFlight
                          /\ UNCHANGED besideFailure
    \/ \E g \in TaskIds, ok \in BOOLEAN :
           ListenerConnectDone(g, ok) /\ orphans' = StillInFlight /\ UNCHANGED besideFailure
    \/ \E g \in TaskIds, i \in 1..MaxRequests :
           ListenerRead(g, i, "null") /\ orphans' = StillInFlight /\ UNCHANGED besideFailure
    \/ \E g \in TaskIds : ListenerReadFail(g) /\ orphans' = orphans \cup Awaited
                          /\ UNCHANGED besideFailure
    \/ \E g \in TaskIds, i \in 1..MaxRequests :
           ListenerReadMalformed(g, i) /\ orphans' = StillInFlight
           /\ UNCHANGED besideFailure
    \/ \E g \in TaskIds : ListenerCancelled(g) /\ orphans' = StillInFlight
                          /\ UNCHANGED besideFailure

FailureSpec == Init /\ [][FailureNext]_vars

\* in the step taken a read of the listening task g failed: the task was reading
\* and has ended with its connection closed
ReadFailed(g) ==
    /\ tasks[g].pc = "reading" /\ ~tasks[g].cancel
    /\ tasks'[g].pc = "done"
    /\ ~conns'[tasks[g].conn].open

\* C31: a failed read of the listener leaves the outstanding table and its
\* futures as they are; a request that was in flight then stays in the table
\* while its call lasts, and its call ends with Web3TimeoutError, or with the
\* response a listener has delivered to its future
InFlightSurviveReadFailure ==
    [][/\ (\E g \in TaskIds : ReadFailed(g)) => requests' = requests
       /\ orphans \subseteq DOMAIN requests
       /\ returned'.type # "none" /\ returned'.id \in orphans =>
              \/ returned'.type = "Web3TimeoutError"
              \/ /\ returned'.type \in {"result", "Web3APIError"}
                 /\ requests[returned'.id].state = "done"]_vars

\* the first request was in flight when a read failed, and its call has ended
\* with Web3TimeoutError while the second, in flight as well, still waits
OrphanTimedOut ==
    /\ returned.type = "Web3TimeoutError" /\ returned.id = 1
    /\ orphans = {2}
    /\ requests[2].state = "pending"

\* in the step taken the listening task g read a malformed frame in place of the
\* response to request i, whose call waits for it: the frame is consumed, the
\* connection stays open, the task has ended (the handler of a well-formed
\* response raises only on a future that is not pending)
MalformedRead(g, i) ==
    /\ tasks[g].pc = "reading" /\ ~tasks[g].cancel
    /\ conns[tasks[g].conn].open /\ conns'[tasks[g].conn].open
    /\ i \in conns[tasks[g].conn].inbox /\ i \notin conns'[tasks[g].conn].inbox
    /\ i \in DOMAIN requests /\ requests[i].state = "pending"
    /\ tasks'[g].pc = "done"

\* C32: a malformed frame read by the listener reaches a waiting send_request as
\* a parse error: the future of a waiting call is completed with it
MalformedFrameSurfaces ==
    [][\A g \in TaskIds, i \in 1..MaxRequests :
          MalformedRead(g, i) =>
              \E j \in DOMAIN requests :
                  /\ requests[j].state = "pending"
                  /\ j \in DOMAIN requests' /\ requests'[j].state # "pending"]_vars

(* ---------------- more properties of send_in_order_and_wait ------------ *)
\* C33: send_in_order_and_wait submits every transaction of its list before a
\* wait for a receipt begins: while a wait_for_transaction it has started runs,
\* every transaction of the list has its hash
SubmitsAllBeforeWaiting ==
    (\E c \in CallIds : calls[c].kind = "wait" /\ calls[c].tx \in InOrderTxs)
        => \A t \in InOrderTxs : tx_hash[t] # None

(* ============================ Transaction.sign ========================= *)
\* what the steps of sign() leave alone
besideSigning == <<signerVars, transportVars, subVars, lifeVars, closes, orphans, http,
                   events, quantity, mixin>>

\* the value of a key the caller has put in the params
GivenValue == 7

\* wallet_address.to_checksum_address()
WalletChecksum == 9

\* the largest number the node answers to a filler's request
MaxNodeValue == 3

NodeValues == 1..MaxNodeValue

\* the values of gas_multiplier that are followed, as fractions: 1.0, 1.5, 1.1
Multipliers == {<<1, 1>>, <<3, 2>>, <<11, 10>>}

\* int(x) of a fraction that is not negative: the digits after the point are cut
IntOf(num, den) == num \div den

\* a faulty variant of the test below, for which every key is to be filled; the
\* params the caller has given are tested against it
NeedsDefaultAlways(f, params) == TRUE

\* the test a filler makes before its request: "chainId" not in self.params and
\* so on, and for the gas price no EIP-1559 field either
NeedsDefault(f, params) ==
    IF f = "gasPrice"
    THEN /\ params["maxPriorityFeePerGas"] = None /\ params["maxFeePerGas"] = None
         /\ params["gasPrice"] = None
    ELSE params[f] = None

\* what filler f writes under its key when the node has answered v
FillerValue(f, v, sg) ==
    CASE f = "chainId" -> v
      [] f = "gas" -> v * 2
      [] f = "gasPrice" -> IntOf(v * sg.gas_multiplier[1], sg.gas_multiplier[2])
      [] f = "nonce" -> v + sg.nonce_offset

\* sign() is called: "from" is filled if absent, the four fillers are gathered
SignCall ==
    /\ signing.pc = "new"
    /\ signing' = [signing EXCEPT
                      !.pc = "gather",
                      !.params["from"] = IF @ = None THEN WalletChecksum ELSE @,
                      !.fillers = [f \in Fillers |-> "created"]]

\* filler f runs up to its await, or to its end when it has nothing to fill
FillerRun(f) ==
    /\ signing.fillers[f] = "created"
    /\ signing' = [signing EXCEPT
                      !.fillers[f] = IF NeedsDefault(f, signing.params)
                                     THEN "awaiting" ELSE "done"]

\* the node answers v to the request of filler f: self.params.update({f: ...})
FillerAnswer(f, v) ==
    /\ signing.fillers[f] = "awaiting"
    /\ signing' = [signing EXCEPT
                      !.fillers[f] = "done",
                      !.params[f] = FillerValue(f, v, signing),
                      !.gas_price = IF f = "gasPrice" THEN v ELSE @]

\* the request of filler f fails: gather() passes the first exception on to
\* sign(), which raises; the other fillers go on
FillerFails(f) ==
    /\ signing.fillers[f] = "awaiting"
    /\ signing' = [signing EXCEPT
                      !.fillers[f] = "failed",
                      !.pc = IF @ = "gather" THEN "raised" ELSE @]

\* gather() returns: self.signed_tx = Account.sign_transaction(self.params, key)
SignFinish ==
    /\ signing.pc = "gather"
    /\ \A f \in Fillers : signing.fillers[f] = "done"
    /\ signing' = [signing EXCEPT !.pc = "signed", !.signed_tx = signing.params]

\* a transaction with any of the keys given, signed with any of the multipliers
\* and with nonce_offset 0 or 1
SigningInit ==
    /\ InitObjects
    /\ events = NoParse
    /\ quantity = NewQuantity(0)
    /\ signing \in {NewSigning(p, m, o) :
                       p \in [SignKeys -> {None, GivenValue}],
                       m \in Multipliers, o \in 0..1}

SigningNext ==
    \/ SignCall /\ UNCHANGED besideSigning
    \/ \E f \in Fillers : FillerRun(f) /\ UNCHANGED besideSigning
    \/ \E f \in Fillers, v \in NodeValues : FillerAnswer(f, v) /\ UNCHANGED besideSigning
    \/ \E f \in Fillers : FillerFails(f) /\ UNCHANGED besideSigning
    \/ SignFinish /\ UNCHANGED besideSigning

SigningSpec == SigningInit /\ [][SigningNext]_vars

\* C34: sign() never changes the value of from, chainId, gas, gasPrice or nonce
\* that is in the params already; a filler that takes a step changes no key but
\* its own; and what is signed holds the values that were given (the nonce the
\* Signer has set is the nonce that is signed)
SignKeepsGivenParams ==
    [][/\ \A k \in {"from"} \cup Fillers :
              signing.params[k] # None => signing'.params[k] = signing.params[k]
       /\ \A f \in Fillers :
              signing'.fillers[f] # signing.fillers[f] /\ signing.pc # "new" =>
                  \A k \in SignKeys \ {f} : signing'.params[k] = signing.params[k]
       /\ signing'.pc = "signed" =>
              \A k \in SignKeys :
                  signing.given[k] # None =>
                      signing'.signed_tx[k] = signing.given[k]]_vars

\* a transaction that came with its nonce and without chainId, gas and gasPrice
\* has been signed: the three were filled, the nonce is the one given
SignedWithGivenNonce ==
    /\ signing.pc = "signed"
    /\ signing.given["nonce"] = GivenValue
    /\ signing.signed_tx["nonce"] = GivenValue
    /\ \A k \in {"from", "chainId", "gas", "gasPrice"} :
           signing.given[k] = None /\ signing.signed_tx[k] # None

\* C35: when sign() finds no gasPrice and no EIP-1559 field, the gasPrice it
\* sets is the ceiling of the node's gas price times gas_multiplier, the least
\* integer not below the product; with an EIP-1559 field it adds no gasPrice
GasPriceIsCeiling ==
    signing.fillers["gasPrice"] = "done" =>
        IF NeedsDefault("gasPrice", signing.given)
        THEN LET num == signing.gas_multiplier[1]
                 den == signing.gas_multiplier[2]
                 p == signing.params["gasPrice"]
             IN /\ p * den >= signing.gas_price * num
                /\ (p - 1) * den < signing.gas_price * num
        ELSE signing.params["gasPrice"] = signing.given["gasPrice"]

(* --------------- the requests beside a failed send_request ------------- *)
\* C36: a send_request that fails or times out leaves the listening task of the
\* requests still in flight alone: the task that was reading for them is not
\* cancelled, so that it goes on reading from the connection it shares with them
FailureSparesListener ==
    [][/\ returned'.type \in {"Web3TimeoutError", "OtherError"}
       /\ listener_task # None /\ Reading(listener_task)
       /\ \E d \in SendIds :
              /\ sends[d].pc = "await_fut" /\ sends'[d].pc = "await_fut"
              /\ requests[sends[d].id].state = "pending"
       => /\ listener_task' = listener_task
          /\ Reading(listener_task)']_vars

\* C38: the handling of a response does not end the listening task: a task that
\* has read the response to a request of the outstanding table, whatever the
\* state of its future, goes on reading
ResponseRead(g, i) ==
    /\ tasks[g].pc = "reading" /\ ~tasks[g].cancel
    /\ conns[tasks[g].conn].open /\ conns'[tasks[g].conn].open
    /\ i \in conns[tasks[g].conn].inbox /\ i \notin conns'[tasks[g].conn].inbox

HandlingKeepsListening ==
    [][\A g \in TaskIds, i \in 1..MaxRequests :
          ResponseRead(g, i) => tasks'[g].pc # "done"]_vars

(* ------------------ more properties of subscriptions ------------------- *)
\* the subscription s is live, or the response that made it has been handed to
\* the future of a subscribe that has not resumed yet
Subscribing(s) ==
    \/ s \in subscriptions
    \/ \E c \in SubCallIds :
           /\ subCalls[c].kind = "subscribe" /\ subCalls[c].pc = "await"
           /\ requests[subCalls[c].id].state = "done"
           /\ ~Truthy(requests[subCalls[c].id].response.error)
           /\ requests[subCalls[c].id].response.result = s

\* C37: a notification the server sends for a subscription after its
\* eth_subscribe response is put on the queue of that subscription, also when the
\* listener reads it before the subscribing task has resumed
EarlyNotificationEnqueued ==
    [][handled'.kind = "notification" /\ Subscribing(handled'.sub) =>
           /\ handled'.sub \in DOMAIN queues
           /\ queues'[handled'.sub].items =
                  Append(queues[handled'.sub].items,
                         [sub |-> handled'.sub, seq |-> Head(wire).seq])]_vars

(* ------------------ a transaction sent more than once ------------------ *)
\* send_transaction calls on the Signer, a Transaction object being passed as
\* often as the caller likes
ResendNext ==
    \/ \E t \in Txs : BeginSend(t) /\ UNCHANGED besideSigner
    \/ \E c \in CallIds : LockAcquired(c) /\ UNCHANGED besideSigner
    \/ \E c \in CallIds, r \in RpcOutcomes : AllocQueryDone(c, r) /\ UNCHANGED besideSigner
    \/ \E c \in CallIds, r \in RpcOutcomes : SignDone(c, r) /\ UNCHANGED besideSigner
    \/ \E c \in CallIds, r \in RpcOutcomes : SendDone(c, r) /\ UNCHANGED besideSigner
    \/ \E n \in Counts : NodeSetCount(n) /\ UNCHANGED besideSigner

ResendSpec == Init /\ [][ResendNext]_vars

\* C39: every entry n -> tx of the pending set has tx.params["nonce"] = n, also
\* when a Transaction object is passed to send_transaction more than once (so
\* that wait_for_transaction on the transaction removes the entry)
PendingEntriesMatchNonce ==
    \A n \in DOMAIN pending_transactions :
        tx_nonce[pending_transactions[n]] = n

(* ========================= Web3Mixin / UseWeb3 ========================= *)
\* what the steps of the UseWeb3 blocks leave alone
besideMixin == <<signerVars, transportVars, subVars, lifeVars, closes, orphans, http,
                 events, quantity, signing>>

\* number of AioWeb3 clients given to UseWeb3
NumClients == 2

MixinClients == 1..NumClients

\* the client set_default_web3 has installed
DefaultWeb3 == 0

\* how deep a task nests its UseWeb3 blocks
MaxDepth == 2

\* Web3Mixin.web3: the top of the stack, default_web3 when the stack is empty
Web3Of(web3_stack) ==
    IF web3_stack # <<>> THEN web3_stack[Len(web3_stack)] ELSE DefaultWeb3

\* list.pop()
Pop(web3_stack) == SubSeq(web3_stack, 1, Len(web3_stack) - 1)

\* task t enters `with UseWeb3(w)`: __enter__ appends w to the stack of the
\* class; the body of the block may await, so other tasks run meanwhile
UseWeb3Enter(t, w) ==
    /\ Len(mixin.blocks[t]) < MaxDepth
    /\ mixin' = [mixin EXCEPT !.web3_stack = Append(@, w),
                              !.blocks[t] = Append(@, w)]

\* task t leaves its innermost block: __exit__ pops the stack of the class
UseWeb3Exit(t) ==
    /\ mixin.blocks[t] # <<>>
    /\ mixin' = [mixin EXCEPT !.web3_stack = Pop(@),
                              !.blocks[t] = Pop(@)]

MixinNext ==
    \/ \E t \in MixinTasks, w \in MixinClients :
           UseWeb3Enter(t, w) /\ UNCHANGED besideMixin
    \/ \E t \in MixinTasks : UseWeb3Exit(t) /\ UNCHANGED besideMixin

MixinSpec == Init /\ [][MixinNext]_vars

\* C40: for a task inside a `with UseWeb3(w)` block Web3Mixin.web3 is w, the
\* client of its innermost block, whatever blocks other tasks enter and leave
ResolvesToOwnClient ==
    \A t \in MixinTasks :
        mixin.blocks[t] # <<>> => Web3Of(mixin.web3_stack) = Web3Of(mixin.blocks[t])

====
